---- MODULE Spec2Model ----
(***************************************************************************)
(* The asynchronous vote-update pipeline of server/index.js: the retry     *)
(* controller (withNotionRetry), the vote aggregator (aggregateVotes), the *)
(* update executor (performVoteUpdate, asyncPool) and the job queue and    *)
(* lifecycle tracker (POST /api/votes, enqueueVoteJob, drainVoteQueue,     *)
(* runVoteJob).                                                            *)
(*                                                                         *)
(* Node runs the server on one thread: the code between two awaits is one  *)
(* atomic step.  Every action below is the continuation that runs when one *)
(* awaited I/O operation (a storage write, a Notion call wrapped in        *)
(* withNotionRetry) settles, up to the next I/O operation it issues.       *)
(***************************************************************************)
EXTENDS Integers, Sequences, FiniteSets, TLC

(***************************************************************************)
(* Bounds of the model.                                                    *)
(***************************************************************************)
MaxJobs == 3               \* submissions per run, at most
MaxExecJobs == 2           \* submissions per run where the executor is explored
MaxJobConcurrency == 2     \* VOTE_JOB_CONCURRENCY ranges over 1..MaxJobConcurrency
MaxUpdateConcurrency == 2  \* VOTE_UPDATE_CONCURRENCY ranges over 1..MaxUpdateConcurrency
MaxApiFaults == 2          \* Notion calls that end in a throw, per run
MaxStorageFaults == 1      \* record writes that fail, per run
MaxLiveApiFaults == 1      \* the same as MaxApiFaults, where liveness is explored
MaxVotes == 4              \* entries of a request's votes array, at most
MaxCount == 2              \* a vote entry's count, at most

(***************************************************************************)
(* Program constants.                                                      *)
(***************************************************************************)
MAX_NOTION_RETRIES == 3
MAX_RESULT_CHUNK_LENGTH == 1900
MAX_RESULT_CHUNKS == 100

JobIds == 1 .. MaxJobs
KeyIds == {"k1"}
TargetIds == {"a", "b", "c"}

NoValue == "none"

\* Request bodies of POST /api/votes.  In a vote entry, id "" stands for a
\* non-string id and count 0 for a non-finite or non-positive count;
\* results NoValue stands for an absent field.
Vote(id, count) == [id |-> id, count |-> count]

RequestBodies ==
  {[votes |-> <<Vote("", 1), Vote("a", 0)>>, results |-> NoValue],
   [votes |-> <<Vote("a", 1), Vote("a", 1)>>, results |-> NoValue],
   [votes |-> <<Vote("a", 1), Vote("", 1), Vote("b", 1)>>, results |-> "r1"]}

\* Bodies whose votes name one target at most.
SingleTargetBodies ==
  {body \in RequestBodies :
     Cardinality({body.votes[i].id : i \in DOMAIN body.votes} \ {""}) <= 1}

NoRecord == [status |-> "none"]
NoSchema == [none |-> TRUE]
NoOutcome == [none |-> TRUE]
Min(a, b) == IF a < b THEN a ELSE b

(***************************************************************************)
(* Retry controller: pure part.                                            *)
(***************************************************************************)
\* The status of a settled attempt: 200 is a fulfilled promise, 0 an error
\* object without a status field.
OkStatus == 200
RetryableStatuses == {429, 500, 502, 503}

isNotionRetryable_Buggy404(error) ==
  error.status \in RetryableStatuses \cup {404}

isNotionRetryable(error) ==
  error.status \in RetryableStatuses

\* withNotionRetry run against a script: script[i] is what the i-th
\* invocation of the task settles with.  The result tells how the call
\* ends, with which error, after how many invocations and delays.
RECURSIVE withNotionRetryFrom(_, _)
withNotionRetryFrom(script, attempt) ==
  LET o == script[attempt + 1] IN
  IF o.status = OkStatus
    THEN [kind |-> "return", error |-> o, calls |-> attempt + 1, delays |-> attempt]
  ELSE IF ~isNotionRetryable(o) \/ attempt = MAX_NOTION_RETRIES
    THEN [kind |-> "throw", error |-> o, calls |-> attempt + 1, delays |-> attempt]
  ELSE withNotionRetryFrom(script, attempt + 1)

withNotionRetry(script) == withNotionRetryFrom(script, 0)

(***************************************************************************)
(* Vote aggregator and the ingress filter.                                 *)
(***************************************************************************)
\* votes.map(...).filter((vote) => vote.id && vote.count > 0)
sanitizeVotes(votes) ==
  SelectSeq(votes, LAMBDA v : v.id # "" /\ v.count > 0)

IndexOfId(totals, id) ==
  IF \E i \in 1 .. Len(totals) : totals[i].id = id
    THEN CHOOSE i \in 1 .. Len(totals) : totals[i].id = id
    ELSE 0

\* A variant of the aggregator whose set() stores the entry's count instead
\* of the sum.
RECURSIVE aggregateInto_Overwrites(_, _)
aggregateInto_Overwrites(totals, votes) ==
  IF votes = <<>> THEN totals
  ELSE LET v == Head(votes)
           i == IndexOfId(totals, v.id)
       IN aggregateInto_Overwrites(
            IF i = 0 THEN Append(totals, [id |-> v.id, count |-> v.count])
            ELSE [totals EXCEPT ![i].count = v.count],
            Tail(votes))

\* A Map keeps its keys in insertion order; set() on a present key keeps
\* the key's place.
RECURSIVE aggregateInto(_, _)
aggregateInto(totals, votes) ==
  IF votes = <<>> THEN totals
  ELSE LET v == Head(votes)
           i == IndexOfId(totals, v.id)
       IN aggregateInto(
            IF i = 0 THEN Append(totals, [id |-> v.id, count |-> v.count])
            ELSE [totals EXCEPT ![i].count = @ + v.count],
            Tail(votes))

aggregateVotes(votes) == aggregateInto(<<>>, votes)

(***************************************************************************)
(* Used-flag column: the truthiness predicate and the serialization rule.  *)
(* A page property is [type, value]; a column schema is [type].            *)
(***************************************************************************)
\* The words of the pattern; "shi", "yiyong", "yishiyong" stand for the three
\* Chinese words (U+662F; U+5DF2 U+7528; U+5DF2 U+4F7F U+7528).
TruthyWords == {"shi", "yes", "true", "yiyong", "yishiyong", "used"}

\* String.prototype.trim and toLowerCase on the strings of the model.
trim(str) ==
  CASE str = " key1 " -> "key1"
    [] str = " Yes " -> "Yes"
    [] str = "used " -> "used"
    [] OTHER -> str

toLowerCase(str) ==
  CASE str \in {"YES", "Yes"} -> "yes"
    [] str = "TRUE" -> "true"
    [] str = "Used" -> "used"
    [] OTHER -> str

\* A variant of the pattern without its anchors: a word anywhere in the
\* value makes it truthy.
isTruthyValue_Unanchored(value) ==
  \/ toLowerCase(trim(value)) \in TruthyWords
  \/ value \in {"yes please", "unused", "not used"}

\* /^(...)$/i on the trimmed value; an empty value is not truthy.
isTruthyValue(value) == toLowerCase(trim(value)) \in TruthyWords

NoProperty == [type |-> "none"]
Threw(x) == x.type = "throw"


\* A page property carries its type and the value under the type's name
\* (a number property without the field holds null); NoProperty is a
\* column the page does not have.
isUsedPropertyValue(property) ==
  CASE property.type = "checkbox" -> property.checkbox
    [] property.type \in {"select", "status", "rich_text", "title"} ->
         isTruthyValue(property.text)
    [] property.type = "number" ->
         IF "number" \in DOMAIN property THEN property.number > 0 ELSE FALSE
    [] OTHER -> FALSE

\* /shi|yes|true|yiyong|yishiyong|used/i.test(name): the pattern without
\* anchors, as resolveOptionName applies it to an option's name.
containsTruthyWord(name) ==
  \/ toLowerCase(trim(name)) \in TruthyWords
  \/ name \in {"yes please", "unused", "Unused", "not used"}

\* The option of a select or status column that stands for "used": the
\* option named as preferred, else the first whose name contains a truthy
\* word, else the first option; the preferred name when the schema lists
\* no option.
resolveOptionName(propertySchema, preferredName) ==
  LET options == IF "options" \in DOMAIN propertySchema
                   THEN propertySchema.options ELSE <<>>
      fallback == {i \in DOMAIN options : containsTruthyWord(options[i])}
  IN IF options = <<>> THEN preferredName
     ELSE IF \E i \in DOMAIN options : options[i] = preferredName
       THEN preferredName
     ELSE IF fallback # {}
       THEN options[CHOOSE i \in fallback : \A k \in fallback : i <= k]
     ELSE options[1]

\* The property write markKeyUsed sends; [type |-> "throw"] for a column
\* type without a rule.
buildUsedUpdate(propertySchema) ==
  CASE propertySchema.type = "checkbox" -> [type |-> "checkbox", checkbox |-> TRUE]
    [] propertySchema.type \in {"select", "status"} ->
         [type |-> propertySchema.type,
          text |-> resolveOptionName(propertySchema, "shi")]
    [] propertySchema.type \in {"rich_text", "title"} ->
         [type |-> propertySchema.type, text |-> "shi"]
    [] OTHER -> [type |-> "throw"]

\* The key database's schema as the resolvers see it: the column each role
\* resolves to (type "none": no column satisfies the role).
KeyDbSchemas ==
  {[key |-> [type |-> "title"], used |-> [type |-> "checkbox"],
    result |-> [type |-> "rich_text"]]}

resolveKeyProperty(properties) ==
  IF properties.key.type = "none" THEN [type |-> "throw"] ELSE properties.key

resolveUsedProperty(properties) ==
  IF properties.used.type = "none" THEN [type |-> "throw"] ELSE properties.used

resolveResultProperty(properties) ==
  IF properties.result.type = "none" THEN [type |-> "throw"] ELSE properties.result

\* The vote database's schema as resolveVotePropertyName sees it: the name
\* of the number column it picks (NoValue: the database has none).
VoteDbSchemas == {[votes |-> "Votes"]}

\* JSON.stringify of a results payload, as the text's length and the
\* payload it is the text of.  A string s gives "s"; the default payload
\* gives {"votes":[{"id":"a","count":1},...]}, twenty characters an entry
\* for the model's one-letter ids and one-digit counts.
StringLength(str) ==
  CASE str = "r1" -> 2
    [] str = "long" -> 2 * MAX_RESULT_CHUNK_LENGTH + 3
    [] OTHER -> 0

JSONstringify(payload) ==
  [of |-> payload,
   length |-> IF payload.body # NoValue
                THEN StringLength(payload.body) + 2
                ELSE 12 + 20 * Len(payload.votes)
                     + (IF Len(payload.votes) > 0 THEN Len(payload.votes) - 1 ELSE 0)]

\* buildResultUpdate's loop: a chunk is the slice [from, to) of the
\* content, followed by `suffix` characters that are not the content's.
RECURSIVE sliceChunks(_, _, _)
sliceChunks(length, index, chunks) ==
  IF index < length /\ Len(chunks) < MAX_RESULT_CHUNKS
    THEN sliceChunks(length, index + MAX_RESULT_CHUNK_LENGTH,
                     Append(chunks,
                            [from |-> index,
                             to |-> Min(index + MAX_RESULT_CHUNK_LENGTH, length),
                             suffix |-> 0]))
    ELSE chunks

SuffixLength == 3    \* "..."

\* A variant of the truncation that appends the marker to the whole chunk.
truncateLast_NoTrim(chunks) ==
  [chunks EXCEPT ![Len(chunks)].suffix = SuffixLength]

\* The last chunk cut to make room for the marker, and the marker.
truncateLast(chunks) ==
  LET last == chunks[Len(chunks)]
      room == IF MAX_RESULT_CHUNK_LENGTH - SuffixLength > 0
                THEN MAX_RESULT_CHUNK_LENGTH - SuffixLength ELSE 0
  IN [chunks EXCEPT ![Len(chunks)] =
        [from |-> last.from, to |-> Min(last.to, last.from + room),
         suffix |-> SuffixLength]]

resultChunks(length) ==
  LET chunks == sliceChunks(length, 0, <<>>) IN
  IF length > MAX_RESULT_CHUNK_LENGTH * MAX_RESULT_CHUNKS /\ Len(chunks) > 0
    THEN truncateLast(chunks)
    ELSE chunks

\* buildResultUpdate: the chunks, under the column's type.
buildResultUpdate(propertySchema, content) ==
  IF propertySchema.type \in {"rich_text", "title"}
    THEN [type |-> propertySchema.type, of |-> content.of,
          chunks |-> resultChunks(content.length)]
    ELSE [type |-> "throw"]

\* The values a used column of each type may hold before any job ran.
UsedColumnValues(propertySchema) ==
  CASE propertySchema.type = "checkbox" ->
         {[type |-> "checkbox", checkbox |-> b] : b \in BOOLEAN}
    [] propertySchema.type = "number" ->
         {[type |-> "number", number |-> n] : n \in {0, 1}}
    [] propertySchema.type = "none" -> {NoProperty}
    [] OTHER -> {[type |-> propertySchema.type, text |-> w] : w \in {"", "shi"}}

\* A target page's vote-count property as the worker reads it: n >= 0 for a
\* number column holding n, and otherwise one of these.
EmptyNumber == -1    \* a number column holding no value (number: null)
NotNumber == -2      \* a column of another type
MissingColumn == -3  \* the page has no column of that name

(***************************************************************************)
(* The ballot of the voting screen (src/routes/Home.tsx): an object from   *)
(* category to an object from item id to count.                            *)
(***************************************************************************)
MAX_VOTES_PER_CATEGORY == 2

BallotCategories == {"c1", "c2", "c3"}
BallotItems == {"p1", "p2", "p3"}

\* {}
EmptyObject == [k \in {} |-> 0]

\* object[k] ?? fallback
GetOr(object, k, fallback) == IF k \in DOMAIN object THEN object[k] ELSE fallback

\* { ...object, [k]: v }
Spread(object, k, v) ==
  [x \in DOMAIN object \cup {k} |-> IF x = k THEN v ELSE object[x]]

\* a copy of object after delete copy[k]
Delete(object, k) == [x \in DOMAIN object \ {k} |-> object[x]]

\* Object.values(object).reduce((sum, count) => sum + count, 0)
RECURSIVE SumOfValues(_)
SumOfValues(object) ==
  IF DOMAIN object = {}
    THEN 0
    ELSE LET k == CHOOSE x \in DOMAIN object : TRUE
         IN object[k] + SumOfValues(Delete(object, k))

\* A variant of incrementVote that tests the item's count only.
incrementVote_ItemLimitOnly(prev, category, id) ==
  LET currentCategory == GetOr(prev, category, EmptyObject)
      currentCount == GetOr(currentCategory, id, 0)
  IN IF currentCount >= MAX_VOTES_PER_CATEGORY
       THEN prev
       ELSE Spread(prev, category, Spread(currentCategory, id, currentCount + 1))

\* The updater incrementVote hands to setVotes.
incrementVote(prev, category, id) ==
  LET currentCategory == GetOr(prev, category, EmptyObject)
      total == SumOfValues(currentCategory)
      currentCount == GetOr(currentCategory, id, 0)
  IN IF total >= MAX_VOTES_PER_CATEGORY \/ currentCount >= MAX_VOTES_PER_CATEGORY
       THEN prev
       ELSE Spread(prev, category, Spread(currentCategory, id, currentCount + 1))

\* The updater decrementVote hands to setVotes.
decrementVote(prev, category, id) ==
  LET currentCategory == GetOr(prev, category, EmptyObject)
      currentCount == GetOr(currentCategory, id, 0)
      nextCount == currentCount - 1
      nextCategory == IF nextCount = 0
                        THEN Delete(currentCategory, id)
                        ELSE Spread(currentCategory, id, nextCount)
  IN IF currentCount <= 0
       THEN prev
     ELSE IF DOMAIN nextCategory = {}
       THEN Delete(prev, category)
     ELSE Spread(prev, category, nextCategory)

(***************************************************************************)
(* State.                                                                  *)
(***************************************************************************)
VARIABLES
  VOTE_JOB_CONCURRENCY,     \* the dispatcher bound (process configuration)
  VOTE_UPDATE_CONCURRENCY,  \* the worker-pool width (process configuration)
  keyDatabaseId,            \* TRUE when KEY_DB is configured
  keyDbSchema,              \* the key database's schema at Notion
  voteJobQueue,             \* pending jobs, oldest first
  activeVoteJobs,           \* the occupancy counter
  job,                      \* job id -> the job object's inputs
  record,                   \* job id -> job.record (in memory)
  durable,                  \* job id -> the content of <jobId>.json
  response,                 \* job id -> the HTTP answer of its POST /api/votes
  run,                      \* job id -> where its handler stands, and its locals
  keyPages,                 \* key id -> the key record at Notion
  votePages,                \* target id -> its vote-count property at Notion
  voteDbSchema,             \* the vote database's schema at Notion
  cachedKeyDatabaseProperties,  \* the schema last fetched, NoSchema before
  cachedKeyDatabasePropertiesExpiresAt, \* the time until which it is served
  cachedVotePropertyName,       \* the column name last resolved, NoValue before
  cachedVotePropertyNameExpiresAt,      \* the time until which it is served
  now,                      \* Date.now(), in milliseconds
  enqueuedLog,              \* history: job ids in the order enqueueVoteJob took them
  startedLog,               \* history: job ids in the order runVoteJob began
  written,                  \* history: job id -> the Notion writes it performed
  apiFaults,                \* history: Notion calls that ended in a throw
  storageFaults,            \* history: record writes that failed
  retry,                    \* one withNotionRetry call, step by step
  call,                     \* one call of a pure function: its input and result
  voteState                 \* the voting screen's ballot: category -> item -> count

vars ==
  <<VOTE_JOB_CONCURRENCY, VOTE_UPDATE_CONCURRENCY, keyDatabaseId, keyDbSchema,
    voteDbSchema, voteJobQueue, activeVoteJobs, job, record, durable, response,
    run, keyPages, votePages, cachedKeyDatabaseProperties,
    cachedKeyDatabasePropertiesExpiresAt, cachedVotePropertyName,
    cachedVotePropertyNameExpiresAt, now, enqueuedLog, startedLog, written,
    apiFaults, storageFaults, retry, call, voteState>>

\* What no handler of the server assigns: the process configuration, the
\* schemas kept at Notion and the clock.
configVars ==
  <<VOTE_JOB_CONCURRENCY, VOTE_UPDATE_CONCURRENCY, keyDatabaseId, keyDbSchema,
    voteDbSchema, now>>

queueVars == <<voteJobQueue, activeVoteJobs, enqueuedLog, startedLog>>

keyCacheVars ==
  <<cachedKeyDatabaseProperties, cachedKeyDatabasePropertiesExpiresAt>>

voteCacheVars == <<cachedVotePropertyName, cachedVotePropertyNameExpiresAt>>

NOTION_CACHE_TTL_MS == 5 * 60 * 1000

\* The clock is read to the minute; the model follows it for MaxMinutes.
Minute == 60000
MaxMinutes == 6

\* A variant of the test that serves the cache at the expiry time itself.
keyCacheFresh_ThroughExpiry == now <= cachedKeyDatabasePropertiesExpiresAt

\* fetchKeyDatabaseProperties' test: the cached schema is served.
keyCacheFresh == now < cachedKeyDatabasePropertiesExpiresAt

\* resolveVotePropertyName's test: the cached column name is served.
voteCacheFresh == now < cachedVotePropertyNameExpiresAt

pipelineVars ==
  <<configVars, queueVars, job, record, durable, response, run, keyPages,
    votePages, keyCacheVars, voteCacheVars, written, apiFaults, storageFaults>>

\* A Notion call wrapped in withNotionRetry settles with `out`.
NotionCallSettles(out) ==
  /\ apiFaults' = apiFaults + (IF out.kind = "throw" THEN 1 ELSE 0)
  /\ UNCHANGED storageFaults

\* A write of a job record settles, well or not.
RecordWriteSettles(ok) ==
  /\ storageFaults' = storageFaults + (IF ok THEN 0 ELSE 1)
  /\ UNCHANGED apiFaults

NoJob == [keyId |-> "", sanitizedVotes |-> <<>>, resultsPayload |-> [body |-> NoValue]]

IdleRun ==
  [pc |-> "none", served |-> NoSchema, keyProperties |-> NoSchema,
   keyPage |-> NoProperty,
   votePropertyName |-> NoValue,
   tasks |-> <<>>, resultsSaved |-> FALSE, resultsError |-> <<>>]

RetryIdle ==
  [pc |-> "idle", attempt |-> 0, seen |-> <<>>, delays |-> <<>>,
   result |-> [kind |-> "none"]]

\* The state after the module has loaded, the databases at Notion having
\* one of the given schemas.
ConfiguredInit(keySchemas, voteSchemas, voteProperties) ==
  /\ VOTE_JOB_CONCURRENCY \in 1 .. MaxJobConcurrency
  /\ VOTE_UPDATE_CONCURRENCY \in 1 .. MaxUpdateConcurrency
  /\ keyDatabaseId = TRUE    \* KEY_DB is required by docs/server-deployment.md
  /\ keyDbSchema \in keySchemas
  /\ voteDbSchema \in voteSchemas
  /\ voteJobQueue = <<>>
  /\ activeVoteJobs = 0
  /\ job = [j \in JobIds |-> NoJob]
  /\ record = [j \in JobIds |-> NoRecord]
  /\ durable = [j \in JobIds |-> NoRecord]
  /\ response = [j \in JobIds |-> "none"]
  /\ run = [j \in JobIds |-> IdleRun]
  /\ keyPages \in [KeyIds -> {[used |-> u, result |-> NoProperty] :
                               u \in UsedColumnValues(keyDbSchema.used)}]
  /\ votePages \in [TargetIds -> voteProperties]
  /\ cachedKeyDatabaseProperties = NoSchema
  /\ cachedKeyDatabasePropertiesExpiresAt = 0
  /\ cachedVotePropertyName = NoValue
  /\ cachedVotePropertyNameExpiresAt = 0
  /\ now = 1
  /\ enqueuedLog = <<>>
  /\ startedLog = <<>>
  /\ written = [j \in JobIds |-> [votes |-> {}, key |-> {}]]
  /\ apiFaults = 0
  /\ storageFaults = 0
  /\ voteState = EmptyObject    \* useState<VoteState>({}) in the voting screen

PipelineInit == ConfiguredInit(KeyDbSchemas, VoteDbSchemas, {0})

NoCall == [pc |-> "idle"]

Init ==
  /\ PipelineInit
  /\ retry = RetryIdle
  /\ call = NoCall

(***************************************************************************)
(* What a Notion call wrapped in withNotionRetry can end with.  Each       *)
(* invocation of the call settles with one of ApiStatuses; the whole call  *)
(* ends as withNotionRetry computes from the script of its invocations.    *)
(***************************************************************************)
ApiStatuses == {OkStatus, 429}

ApiScripts ==
  [1 .. (MAX_NOTION_RETRIES + 1) -> {[status |-> st] : st \in ApiStatuses}]

ApiOutcomes ==
  {[kind |-> withNotionRetry(script).kind,
    status |-> withNotionRetry(script).error.status] : script \in ApiScripts}

\* error.message of the client's error for a status.
ErrorMessage(status) ==
  CASE status = 404 -> "Could not find the object."
    [] status = 429 -> "Rate limited."
    [] OTHER -> "Notion request failed."

(***************************************************************************)
(* The stages of runVoteJob and performVoteUpdate, as functions of the     *)
(* job's state js = [run, rec]: each runs the synchronous code from one    *)
(* await to the next and says where the job stands then.                   *)
(***************************************************************************)
\* A variant of the handler that hands the filtered votes to the job as
\* they are.
aggregatedVotes_Unmerged(j) == job[j].sanitizedVotes

aggregatedVotes(j) == aggregateVotes(job[j].sanitizedVotes)

JobState(j) == [run |-> run[j], rec |-> record[j]]

Goto(js, pc) == [js EXCEPT !.run.pc = pc]

\* runVoteJob's catch block: the record turns failed and its write is issued.
Throw(js, message) ==
  [run |-> [js.run EXCEPT !.pc = "wTerminal"],
   rec |-> [js.rec EXCEPT !.status = "failed", !.error = message]]

UpdateOutcome(r) ==
  [updated |-> Len(r.tasks),
   property |-> r.votePropertyName,
   results |-> [i \in 1 .. Len(r.tasks) |->
                  [id |-> r.tasks[i].id, previous |-> r.tasks[i].previous,
                   next |-> r.tasks[i].next]],
   resultsSaved |-> r.resultsSaved,
   resultsError |-> r.resultsError]

\* A variant of the completed transition that leaves the outcome out of
\* the record.
Return_WithoutOutcome(js) ==
  [run |-> [js.run EXCEPT !.pc = "wTerminal"],
   rec |-> [js.rec EXCEPT !.status = "completed"]]

\* performVoteUpdate returns: the record turns completed and its write is
\* issued.
Return(js) ==
  [run |-> [js.run EXCEPT !.pc = "wTerminal"],
   rec |-> [js.rec EXCEPT !.status = "completed",
                          !.updateResult = UpdateOutcome(js.run)]]

RecordError(js, message) ==
  [js EXCEPT !.run.resultsError = Append(@, message)]

\* markKeyUsed up to its pages.update.
BeginMarkUsed(js) ==
  LET usedProperty == resolveUsedProperty(js.run.keyProperties) IN
  IF Threw(usedProperty)
    THEN Return(RecordError(js, "Unable to locate used flag property in key_db."))
  ELSE IF Threw(buildUsedUpdate(usedProperty))
    THEN Return(RecordError(js, "Unsupported used property type."))
  ELSE Goto(js, "wUsed")

\* A variant of the key writes in which a result column that cannot be
\* resolved fails the job.
BeginKeyWrites_ResultFatal(js, j) ==
  IF keyDatabaseId /\ job[j].keyId # ""
    THEN IF Threw(resolveResultProperty(js.run.keyProperties))
           THEN Throw(js, "Unable to locate vote result property in key_db.")
           ELSE Goto(js, "wResult")
    ELSE Return(js)

\* updateKeyResults up to its pages.update; a throw is caught by
\* performVoteUpdate, which goes on to markKeyUsed.
BeginKeyWrites(js, j) ==
  IF keyDatabaseId /\ job[j].keyId # ""
    THEN LET properties == js.run.keyProperties IN
         IF Threw(resolveKeyProperty(properties))
           THEN BeginMarkUsed(RecordError(js, "Unable to locate key property in key_db."))
         ELSE IF Threw(resolveUsedProperty(properties))
           THEN BeginMarkUsed(RecordError(js, "Unable to locate used flag property in key_db."))
         ELSE IF Threw(resolveResultProperty(properties))
           THEN BeginMarkUsed(RecordError(js, "Unable to locate vote result property in key_db."))
         ELSE IF Threw(buildResultUpdate(resolveResultProperty(properties),
                                         JSONstringify(job[j].resultsPayload)))
           THEN BeginMarkUsed(RecordError(js, "Result property must be rich_text or title."))
         ELSE Goto(js, "wResult")
    ELSE Return(js)

\* A variant of the pool that starts every task at once, whatever the limit.
StartPool_AllAtOnce(js, j, votePropertyName) ==
  LET list == aggregatedVotes(j) IN
  [js EXCEPT !.run.pc = "pool",
             !.run.votePropertyName = votePropertyName,
             !.run.tasks =
               [i \in 1 .. Len(list) |->
                  [id |-> list[i].id, count |-> list[i].count,
                   st |-> "read", previous |-> 0, next |-> 0]]]

\* asyncPool's loop up to its first await: the first `limit` tasks are
\* started, each with its pages.retrieve issued.
StartPool(js, j, votePropertyName) ==
  LET list == aggregatedVotes(j)
      limit == Min(VOTE_UPDATE_CONCURRENCY, Len(list))
  IN [js EXCEPT !.run.pc = "pool",
                !.run.votePropertyName = votePropertyName,
                !.run.tasks =
                  [i \in 1 .. Len(list) |->
                     [id |-> list[i].id, count |-> list[i].count,
                      st |-> IF i <= limit THEN "read" ELSE "pending",
                      previous |-> 0, next |-> 0]]]

\* A variant of the vote step that looks the vote-count column up even
\* when no votes are left to apply.
BeginVotes_AlwaysLooksUp(js, j) ==
  IF voteCacheFresh
    THEN StartPool(js, j, cachedVotePropertyName)
    ELSE Goto(js, "rVoteSchema")

\* performVoteUpdate's vote step: skipped altogether when the aggregated
\* list is empty.
BeginVotes(js, j) ==
  IF Len(aggregatedVotes(j)) > 0
    THEN IF voteCacheFresh
           THEN StartPool(js, j, cachedVotePropertyName)
           ELSE Goto(js, "rVoteSchema")
    ELSE BeginKeyWrites(js, j)

AfterKeySchema(js, properties) ==
  IF Threw(resolveUsedProperty(properties))
    THEN Throw(js, "Unable to locate used flag property in key_db.")
    ELSE Goto([js EXCEPT !.run.keyProperties = properties], "rKeyPage")

BeginPerformVoteUpdate(js, j) ==
  IF keyDatabaseId /\ job[j].keyId # ""
    THEN IF keyCacheFresh
           THEN AfterKeySchema(js, cachedKeyDatabaseProperties)
           ELSE Goto([js EXCEPT !.run.served = keyDbSchema], "rKeySchema")
    ELSE BeginVotes(js, j)

SetJob(j, js) ==
  /\ run' = [run EXCEPT ![j] = js.run]
  /\ record' = [record EXCEPT ![j] = js.rec]

(***************************************************************************)
(* The dispatcher.                                                         *)
(***************************************************************************)
Range(f) == {f[i] : i \in DOMAIN f}

\* Variants of drainVoteQueue that a correct dispatcher must be told apart
\* from: one that starts every queued job whatever the occupancy, and one
\* that takes the newest queued job first.
drainVoteQueue_NoBound(queue, active) ==
  [started |-> queue, queue |-> <<>>, active |-> active + Len(queue)]

drainVoteQueue_NewestFirst(queue, active) ==
  LET free == IF active < VOTE_JOB_CONCURRENCY
                THEN VOTE_JOB_CONCURRENCY - active ELSE 0
      n == Min(free, Len(queue))
  IN [started |-> [i \in 1 .. n |-> queue[Len(queue) + 1 - i]],
      queue |-> SubSeq(queue, 1, Len(queue) - n),
      active |-> active + n]

\* drainVoteQueue's loop: the jobs it shifts and starts, what is left of
\* the queue, and the occupancy afterwards.
\* A variant of the loop that keeps one slot free.
drainVoteQueue_SpareSlot(queue, active) ==
  LET free == IF active + 1 < VOTE_JOB_CONCURRENCY
                THEN VOTE_JOB_CONCURRENCY - active - 1 ELSE 0
      n == Min(free, Len(queue))
  IN [started |-> SubSeq(queue, 1, n),
      queue |-> SubSeq(queue, n + 1, Len(queue)),
      active |-> active + n]

drainVoteQueue(queue, active) ==
  LET free == IF active < VOTE_JOB_CONCURRENCY
                THEN VOTE_JOB_CONCURRENCY - active ELSE 0
      n == Min(free, Len(queue))
  IN [started |-> SubSeq(queue, 1, n),
      queue |-> SubSeq(queue, n + 1, Len(queue)),
      active |-> active + n]

\* runVoteJob up to its first await, for every job the drain started: the
\* record turns processing and its write is issued.
StartJobs(runs, records, started) ==
  /\ run' = [x \in JobIds |->
               IF x \in Range(started)
                 THEN [runs[x] EXCEPT !.pc = "wProcessing"] ELSE runs[x]]
  /\ record' = [x \in JobIds |->
                  IF x \in Range(started)
                    THEN [records[x] EXCEPT !.status = "processing"]
                    ELSE records[x]]
  /\ startedLog' = startedLog \o started

(***************************************************************************)
(* POST /api/votes.                                                        *)
(***************************************************************************)
\* The request arrives: validation, the record is built and
\* persistVoteRecord is called.
SubmitVotes(j, keyId, votes, results) ==
  /\ UNCHANGED <<apiFaults, storageFaults>>
  /\ run[j].pc = "none"
  /\ \A i \in JobIds : i < j => run[i].pc # "none"
  /\ IF keyDatabaseId /\ keyId = ""
       THEN /\ response' = [response EXCEPT ![j] = "400"]
            /\ run' = [run EXCEPT ![j].pc = "rejected"]
            /\ UNCHANGED <<job, record>>
       ELSE LET sanitizedVotes == sanitizeVotes(votes)
                resultsPayload ==
                  IF results = NoValue
                    THEN [body |-> NoValue, votes |-> sanitizedVotes]
                    ELSE [body |-> results]
            IN /\ job' = [job EXCEPT ![j] =
                            [keyId |-> keyId, sanitizedVotes |-> sanitizedVotes,
                             resultsPayload |-> resultsPayload]]
               /\ record' = [record EXCEPT ![j] =
                               [status |-> "queued", keyId |-> keyId,
                                votes |-> sanitizedVotes,
                                results |-> resultsPayload,
                                updateResult |-> NoOutcome, error |-> NoValue]]
               /\ run' = [run EXCEPT ![j].pc = "persist"]
               /\ UNCHANGED response
  /\ UNCHANGED <<configVars, queueVars, durable, keyPages, votePages,
                 keyCacheVars, voteCacheVars, written, retry, call, voteState>>

\* persistVoteRecord fulfils: the job is enqueued, the queue drained and the
\* request answered with the jobId.
PersistVoteRecordOk(j) ==
  /\ RecordWriteSettles(TRUE)
  /\ run[j].pc = "persist"
  /\ durable' = [durable EXCEPT ![j] = record[j]]
  /\ LET d == drainVoteQueue(Append(voteJobQueue, j), activeVoteJobs) IN
       /\ voteJobQueue' = d.queue
       /\ activeVoteJobs' = d.active
       /\ StartJobs([run EXCEPT ![j].pc = "queued"], record, d.started)
  /\ enqueuedLog' = Append(enqueuedLog, j)
  /\ response' = [response EXCEPT ![j] = "200"]
  /\ UNCHANGED <<configVars, job, keyPages, votePages, keyCacheVars,
                 voteCacheVars, written, retry, call, voteState>>

\* A variant of the handler that enqueues and acknowledges the job although
\* persistVoteRecord rejected.
PersistVoteRecordFail_Enqueues(j) ==
  /\ RecordWriteSettles(FALSE)
  /\ run[j].pc = "persist"
  /\ LET d == drainVoteQueue(Append(voteJobQueue, j), activeVoteJobs) IN
       /\ voteJobQueue' = d.queue
       /\ activeVoteJobs' = d.active
       /\ StartJobs([run EXCEPT ![j].pc = "queued"], record, d.started)
  /\ enqueuedLog' = Append(enqueuedLog, j)
  /\ response' = [response EXCEPT ![j] = "200"]
  /\ UNCHANGED <<configVars, job, durable, keyPages, votePages, keyCacheVars,
                 voteCacheVars, written, retry, call, voteState>>

\* persistVoteRecord rejects: the request is answered with a 500.
PersistVoteRecordFail(j) ==
  /\ RecordWriteSettles(FALSE)
  /\ run[j].pc = "persist"
  /\ run' = [run EXCEPT ![j].pc = "saveFailed"]
  /\ response' = [response EXCEPT ![j] = "500"]
  /\ UNCHANGED <<configVars, queueVars, job, record, durable, keyPages,
                 votePages, keyCacheVars, voteCacheVars, written, retry, call, voteState>>

(***************************************************************************)
(* runVoteJob.                                                             *)
(***************************************************************************)
\* A variant of the processing write that writes again after a failure.
ProcessingRecordWritten_Retries(j, ok) ==
  /\ RecordWriteSettles(ok)
  /\ run[j].pc = "wProcessing"
  /\ durable' = IF ok THEN [durable EXCEPT ![j] = record[j]] ELSE durable
  /\ IF ok THEN SetJob(j, BeginPerformVoteUpdate(JobState(j), j))
           ELSE UNCHANGED <<run, record>>
  /\ UNCHANGED <<configVars, queueVars, job, response, keyPages, votePages,
                 keyCacheVars, voteCacheVars, written, retry, call, voteState>>

\* The write of the processing record settles (safeUpdateVoteRecord logs a
\* failure and returns); performVoteUpdate begins.
ProcessingRecordWritten(j, ok) ==
  /\ RecordWriteSettles(ok)
  /\ run[j].pc = "wProcessing"
  /\ durable' = IF ok THEN [durable EXCEPT ![j] = record[j]] ELSE durable
  /\ SetJob(j, BeginPerformVoteUpdate(JobState(j), j))
  /\ UNCHANGED <<configVars, queueVars, job, response, keyPages, votePages,
                 keyCacheVars, voteCacheVars, written, retry, call, voteState>>

\* A variant of the terminal write whose failure leaves an empty file.
TerminalRecordWritten_Truncates(j, ok) ==
  /\ RecordWriteSettles(ok)
  /\ run[j].pc = "wTerminal"
  /\ durable' = [durable EXCEPT ![j] = IF ok THEN record[j] ELSE NoRecord]
  /\ LET d == drainVoteQueue(voteJobQueue, activeVoteJobs - 1) IN
       /\ voteJobQueue' = d.queue
       /\ activeVoteJobs' = d.active
       /\ StartJobs([run EXCEPT ![j].pc = "done"], record, d.started)
  /\ UNCHANGED <<configVars, enqueuedLog, job, response, keyPages, votePages,
                 keyCacheVars, voteCacheVars, written, retry, call, voteState>>

\* A variant of the finally handler that releases the slot and does not
\* drain the queue.
TerminalRecordWritten_NoDrain(j, ok) ==
  /\ RecordWriteSettles(ok)
  /\ run[j].pc = "wTerminal"
  /\ durable' = IF ok THEN [durable EXCEPT ![j] = record[j]] ELSE durable
  /\ activeVoteJobs' = activeVoteJobs - 1
  /\ run' = [run EXCEPT ![j].pc = "done"]
  /\ UNCHANGED <<configVars, voteJobQueue, enqueuedLog, startedLog, record,
                 job, response, keyPages, votePages, keyCacheVars,
                 voteCacheVars, written, retry, call, voteState>>

\* The write of the completed or failed record settles; runVoteJob is
\* over and drainVoteQueue's finally handler releases the slot and drains.
TerminalRecordWritten(j, ok) ==
  /\ RecordWriteSettles(ok)
  /\ run[j].pc = "wTerminal"
  /\ durable' = IF ok THEN [durable EXCEPT ![j] = record[j]] ELSE durable
  /\ LET d == drainVoteQueue(voteJobQueue, activeVoteJobs - 1) IN
       /\ voteJobQueue' = d.queue
       /\ activeVoteJobs' = d.active
       /\ StartJobs([run EXCEPT ![j].pc = "done"], record, d.started)
  /\ UNCHANGED <<configVars, enqueuedLog, job, response, keyPages, votePages,
                 keyCacheVars, voteCacheVars, written, retry, call, voteState>>

(***************************************************************************)
(* performVoteUpdate: the key check.                                       *)
(***************************************************************************)
\* database.properties of a databases.retrieve that was sent when the schema
\* was `served`: Notion read the schema at some moment between the request
\* and the response.
RetrievedProperties(served) == {served, keyDbSchema}

\* fetchKeyDatabaseProperties' databases.retrieve settles.
KeySchemaRetrieved(j, out) ==
  /\ NotionCallSettles(out)
  /\ run[j].pc = "rKeySchema"
  /\ LET js == [JobState(j) EXCEPT !.run.served = NoSchema] IN
     IF out.kind = "return"
       THEN \E properties \in RetrievedProperties(run[j].served) :
              /\ cachedKeyDatabaseProperties' = properties
              /\ cachedKeyDatabasePropertiesExpiresAt' =
                   now + NOTION_CACHE_TTL_MS
              /\ SetJob(j, AfterKeySchema(js, properties))
       ELSE /\ SetJob(j, Throw(js, ErrorMessage(out.status)))
            /\ UNCHANGED keyCacheVars
  /\ UNCHANGED <<configVars, queueVars, job, durable, response, keyPages,
                 votePages, voteCacheVars, written, retry, call, voteState>>

\* A variant of the re-check that lets every key through.
CheckKeyPage_Skipped(js, j) == BeginVotes(js, j)

\* The re-check of the used flag once the key page is here: a used key
\* throws, an unused one lets the job go on to the votes.
CheckKeyPage(js, j) ==
  IF isUsedPropertyValue(js.run.keyPage)
    THEN Throw(js, "Key already used.")
    ELSE BeginVotes(js, j)

\* pages.retrieve of the key page settles.
KeyPageRetrieved(j, out) ==
  /\ NotionCallSettles(out)
  /\ run[j].pc = "rKeyPage"
  /\ IF out.kind = "return"
       THEN SetJob(j, CheckKeyPage(
              [JobState(j) EXCEPT !.run.keyPage = keyPages[job[j].keyId].used], j))
       ELSE SetJob(j, Throw(JobState(j), ErrorMessage(out.status)))
  /\ UNCHANGED <<configVars, queueVars, job, durable, response, keyPages,
                 votePages, keyCacheVars, voteCacheVars, written, retry, call, voteState>>

(***************************************************************************)
(* performVoteUpdate: the vote-count updates under asyncPool.              *)
(***************************************************************************)
\* resolveVotePropertyName's databases.retrieve settles.
VoteSchemaRetrieved(j, out) ==
  /\ NotionCallSettles(out)
  /\ run[j].pc = "rVoteSchema"
  /\ IF out.kind = "return" /\ voteDbSchema.votes # NoValue
       THEN /\ cachedVotePropertyName' = voteDbSchema.votes
            /\ cachedVotePropertyNameExpiresAt' = now + NOTION_CACHE_TTL_MS
            /\ SetJob(j, StartPool(JobState(j), j, voteDbSchema.votes))
       ELSE /\ SetJob(j, Throw(JobState(j),
                               IF out.kind = "return"
                                 THEN "No number property found for votes."
                                 ELSE ErrorMessage(out.status)))
            /\ UNCHANGED voteCacheVars
  /\ UNCHANGED <<configVars, queueVars, job, durable, response, keyPages,
                 votePages, keyCacheVars, written, retry, call, voteState>>

\* A variant of the pool in which a task's rejection is swallowed: the
\* loop goes on with the next item and the pool's caller is not told.
TaskRejects_Swallowed(js, i, message) ==
  LET failed == [js EXCEPT !.run.tasks[i].st = "failed"]
      pending == {k \in DOMAIN js.run.tasks : js.run.tasks[k].st = "pending"}
  IN IF js.run.pc = "pool" /\ pending # {}
       THEN [failed EXCEPT
               !.run.tasks[CHOOSE m \in pending : \A n \in pending : m <= n].st = "read"]
       ELSE failed

\* A task of the pool rejects.  While performVoteUpdate still awaits the
\* pool (Promise.race in the loop, Promise.all after it) the rejection
\* ends the pool and the job; the tasks already started run on.
TaskRejects(js, i, message) ==
  LET failed == [js EXCEPT !.run.tasks[i].st = "failed"] IN
  IF js.run.pc = "pool" THEN Throw(failed, message) ELSE failed

\* A variant of the pool that waits for every task to settle and then goes
\* on, whether or not one of them rejected (Promise.allSettled).
TaskFulfils_AllSettled(js, j, i) ==
  LET done == [js EXCEPT !.run.tasks[i].st = "done"]
      tasks == done.run.tasks
      pending == {k \in DOMAIN tasks : tasks[k].st = "pending"}
  IN IF pending # {}
       THEN LET k == CHOOSE m \in pending : \A n \in pending : m <= n
            IN [done EXCEPT !.run.tasks[k].st = "read"]
     ELSE IF \A k \in DOMAIN tasks : tasks[k].st \in {"done", "failed"}
       THEN BeginKeyWrites(done, j)
     ELSE done

\* A variant of the pool that leaves its loop after the first fulfilment:
\* the items not yet started never are, and performVoteUpdate goes on once
\* the started ones have fulfilled.
TaskFulfils_ExitsOnSuccess(js, j, i) ==
  LET done == [js EXCEPT !.run.tasks[i].st = "done"]
      tasks == done.run.tasks
  IN IF js.run.pc # "pool" THEN done
     ELSE IF \A k \in DOMAIN tasks : tasks[k].st \in {"done", "pending"}
       THEN BeginKeyWrites(done, j)
     ELSE done

\* A task of the pool fulfils.  While the loop runs it starts the next
\* item; once every task has fulfilled, performVoteUpdate goes on.
TaskFulfils(js, j, i) ==
  LET done == [js EXCEPT !.run.tasks[i].st = "done"]
      tasks == done.run.tasks
      pending == {k \in DOMAIN tasks : tasks[k].st = "pending"}
  IN IF js.run.pc # "pool" THEN done
     ELSE IF pending # {}
       THEN LET k == CHOOSE m \in pending : \A n \in pending : m <= n
            IN [done EXCEPT !.run.tasks[k].st = "read"]
     ELSE IF \A k \in DOMAIN tasks : tasks[k].st = "done"
       THEN BeginKeyWrites(done, j)
     ELSE done

\* A variant of the read that takes whatever the page holds as a number.
isNumberProperty_Any(property) == TRUE

\* The worker's test of the property read from the page: it is there and
\* its type is number.
isNumberProperty(property) == property \notin {MissingColumn, NotNumber}

\* property.number ?? 0
numberOrZero(property) == IF property = EmptyNumber THEN 0 ELSE property

NotNumericMessage(votePropertyName) ==
  "Vote property \"" \o votePropertyName \o "\" is not numeric."

\* pages.retrieve of a target page settles.
TargetPageRetrieved(j, i, out) ==
  /\ NotionCallSettles(out)
  /\ i \in DOMAIN run[j].tasks
  /\ run[j].tasks[i].st = "read"
  /\ IF out.kind = "return"
       THEN LET property == votePages[run[j].tasks[i].id]
                currentValue == numberOrZero(property)
                nextValue == currentValue + run[j].tasks[i].count
            IN IF isNumberProperty(property)
                 THEN /\ run' = [run EXCEPT ![j].tasks[i] =
                                   [@ EXCEPT !.st = "write",
                                             !.previous = currentValue,
                                             !.next = nextValue]]
                      /\ UNCHANGED record
                 ELSE SetJob(j, TaskRejects(JobState(j), i,
                               NotNumericMessage(run[j].votePropertyName)))
       ELSE SetJob(j, TaskRejects(JobState(j), i, ErrorMessage(out.status)))
  /\ UNCHANGED <<configVars, queueVars, job, durable, response, keyPages,
                 votePages, keyCacheVars, voteCacheVars, written, retry, call, voteState>>

\* pages.update of a target page settles.
TargetPageUpdated(j, i, out) ==
  /\ NotionCallSettles(out)
  /\ i \in DOMAIN run[j].tasks
  /\ run[j].tasks[i].st = "write"
  /\ IF out.kind = "return"
       THEN /\ votePages' = [votePages EXCEPT ![run[j].tasks[i].id] =
                               run[j].tasks[i].next]
            /\ written' = [written EXCEPT ![j].votes = @ \cup {run[j].tasks[i].id}]
            /\ SetJob(j, TaskFulfils(JobState(j), j, i))
       ELSE /\ SetJob(j, TaskRejects(JobState(j), i, ErrorMessage(out.status)))
            /\ UNCHANGED <<votePages, written>>
  /\ UNCHANGED <<configVars, queueVars, job, durable, response, keyPages,
                 keyCacheVars, voteCacheVars, retry, call, voteState>>

(***************************************************************************)
(* performVoteUpdate: the key record's result and used flag.               *)
(***************************************************************************)
\* A variant of performVoteUpdate with one try block around both key
\* writes: a failed result write skips markKeyUsed.
KeyResultUpdated_SkipsUsedOnFailure(j, out) ==
  /\ NotionCallSettles(out)
  /\ run[j].pc = "wResult"
  /\ IF out.kind = "return"
       THEN /\ keyPages' = [keyPages EXCEPT ![job[j].keyId].result =
                              buildResultUpdate(
                                resolveResultProperty(run[j].keyProperties),
                                JSONstringify(job[j].resultsPayload))]
            /\ written' = [written EXCEPT ![j].key = @ \cup {"result"}]
            /\ SetJob(j, BeginMarkUsed([JobState(j) EXCEPT !.run.resultsSaved = TRUE]))
       ELSE /\ SetJob(j, Return(RecordError(JobState(j), ErrorMessage(out.status))))
            /\ UNCHANGED <<keyPages, written>>
  /\ UNCHANGED <<configVars, queueVars, job, durable, response, votePages,
                 keyCacheVars, voteCacheVars, retry, call, voteState>>

\* updateKeyResults' pages.update settles.
KeyResultUpdated(j, out) ==
  /\ NotionCallSettles(out)
  /\ run[j].pc = "wResult"
  /\ IF out.kind = "return"
       THEN /\ keyPages' = [keyPages EXCEPT ![job[j].keyId].result =
                              buildResultUpdate(
                                resolveResultProperty(run[j].keyProperties),
                                JSONstringify(job[j].resultsPayload))]
            /\ written' = [written EXCEPT ![j].key = @ \cup {"result"}]
            /\ SetJob(j, BeginMarkUsed([JobState(j) EXCEPT !.run.resultsSaved = TRUE]))
       ELSE /\ SetJob(j, BeginMarkUsed(RecordError(JobState(j), ErrorMessage(out.status))))
            /\ UNCHANGED <<keyPages, written>>
  /\ UNCHANGED <<configVars, queueVars, job, durable, response, votePages,
                 keyCacheVars, voteCacheVars, retry, call, voteState>>

\* markKeyUsed's pages.update settles.
KeyUsedUpdated(j, out) ==
  /\ NotionCallSettles(out)
  /\ run[j].pc = "wUsed"
  /\ IF out.kind = "return"
       THEN /\ keyPages' = [keyPages EXCEPT ![job[j].keyId].used =
                              buildUsedUpdate(resolveUsedProperty(run[j].keyProperties))]
            /\ written' = [written EXCEPT ![j].key = @ \cup {"used"}]
            /\ SetJob(j, Return(JobState(j)))
       ELSE /\ SetJob(j, Return(RecordError(JobState(j), ErrorMessage(out.status))))
            /\ UNCHANGED <<keyPages, written>>
  /\ UNCHANGED <<configVars, queueVars, job, durable, response, votePages,
                 keyCacheVars, voteCacheVars, retry, call, voteState>>

(***************************************************************************)
(* Time passes between two steps of the server.                            *)
(***************************************************************************)
TimePasses(d) ==
  /\ UNCHANGED <<apiFaults, storageFaults>>
  /\ now + d <= MaxMinutes * Minute + 1
  /\ now' = now + d
  /\ UNCHANGED <<VOTE_JOB_CONCURRENCY, VOTE_UPDATE_CONCURRENCY, keyDatabaseId,
                 keyDbSchema, voteDbSchema, queueVars, job, record, durable,
                 response, run, keyPages, votePages, keyCacheVars,
                 voteCacheVars, written, retry, call, voteState>>

(***************************************************************************)
(* The operator edits the key database at Notion: from now on the key role *)
(* resolves to a rich_text column.                                         *)
(***************************************************************************)
KeySchemaChanges ==
  /\ UNCHANGED <<apiFaults, storageFaults>>
  /\ keyDbSchema.key.type = "title"
  /\ keyDbSchema' = [keyDbSchema EXCEPT !.key = [type |-> "rich_text"]]
  /\ UNCHANGED <<VOTE_JOB_CONCURRENCY, VOTE_UPDATE_CONCURRENCY, keyDatabaseId,
                 voteDbSchema, now, queueVars, job, record, durable, response,
                 run, keyPages, votePages, keyCacheVars, voteCacheVars,
                 written, retry, call, voteState>>

(***************************************************************************)
(* The pipeline's specification.                                           *)
(***************************************************************************)
\* The ways a Notion call may end now: a throw only while fewer than
\* `maxApiFaults` calls have thrown.
Outcomes(maxApiFaults) ==
  {out \in ApiOutcomes : out.kind = "return" \/ apiFaults < maxApiFaults}

\* The ways a record write may end now.
WriteOks(maxStorageFaults) ==
  {ok \in BOOLEAN : ok \/ storageFaults < maxStorageFaults}

\* The steps of job j's own handlers (its request and its runVoteJob):
\* one of its awaited operations settles.
JobStep(j, maxApiFaults, maxStorageFaults) ==
  \/ PersistVoteRecordOk(j)
  \/ FALSE \in WriteOks(maxStorageFaults) /\ PersistVoteRecordFail(j)
  \/ \E ok \in WriteOks(maxStorageFaults) : ProcessingRecordWritten(j, ok)
  \/ \E ok \in WriteOks(maxStorageFaults) : TerminalRecordWritten(j, ok)
  \/ \E out \in Outcomes(maxApiFaults) : KeySchemaRetrieved(j, out)
  \/ \E out \in Outcomes(maxApiFaults) : KeyPageRetrieved(j, out)
  \/ \E out \in Outcomes(maxApiFaults) : VoteSchemaRetrieved(j, out)
  \/ \E i \in 1 .. Cardinality(TargetIds), out \in Outcomes(maxApiFaults) :
       TargetPageRetrieved(j, i, out)
  \/ \E i \in 1 .. Cardinality(TargetIds), out \in Outcomes(maxApiFaults) :
       TargetPageUpdated(j, i, out)
  \/ \E out \in Outcomes(maxApiFaults) : KeyResultUpdated(j, out)
  \/ \E out \in Outcomes(maxApiFaults) : KeyUsedUpdated(j, out)

\* The pipeline's next-state relation for an environment: the requests it
\* sends and how often its calls fail.
PipelineNext(jobIds, keyIds, bodies, maxApiFaults, maxStorageFaults) ==
  \/ \E j \in jobIds, keyId \in keyIds, body \in bodies :
       SubmitVotes(j, keyId, body.votes, body.results)
  \/ \E j \in jobIds : JobStep(j, maxApiFaults, maxStorageFaults)

\* The executor explored: two submissions, every request body, failing
\* Notion calls and a failing record write, in a run shorter than the
\* caches' time to live.
Next ==
  PipelineNext(1 .. MaxExecJobs, KeyIds \cup {""}, RequestBodies,
               MaxApiFaults, MaxStorageFaults)

Spec == Init /\ [][Next]_vars

\* The dispatcher explored: three submissions with votes for one target, a
\* failing record write, no failing Notion call.
QueueBodies ==
  {body \in SingleTargetBodies : sanitizeVotes(body.votes) # <<>>}

QueueNext ==
  PipelineNext(JobIds, KeyIds \cup {""}, QueueBodies, 0, MaxStorageFaults)

SpecQueue == Init /\ [][QueueNext]_vars

\* Liveness explored: two submissions with votes for two targets under one
\* key, a failing Notion call and a failing record write, where every
\* awaited operation of every job settles in the end.
LiveBodies ==
  {body \in RequestBodies :
     Len(aggregateVotes(sanitizeVotes(body.votes))) = 2}

LiveNext ==
  PipelineNext(1 .. MaxExecJobs, KeyIds, LiveBodies,
               MaxLiveApiFaults, MaxStorageFaults)

Fairness ==
  \A j \in 1 .. MaxExecJobs :
    WF_vars(JobStep(j, MaxLiveApiFaults, MaxStorageFaults))

SpecLive == Init /\ [][LiveNext]_vars /\ Fairness

\* The worker pool explored: one submission, with votes for three targets,
\* two or one (a target named twice), a results payload of three chunks, of
\* one, or none, failing Notion calls and a failing record write.
PoolBodies ==
  {[votes |-> <<Vote("a", 1), Vote("b", 2), Vote("a", 1), Vote("c", 1)>>,
    results |-> "long"],
   [votes |-> <<Vote("a", 1), Vote("a", 1), Vote("b", 2)>>, results |-> NoValue],
   [votes |-> <<Vote("b", 1)>>, results |-> "r1"]}

PoolNext ==
  PipelineNext({1}, KeyIds, PoolBodies, MaxApiFaults, MaxStorageFaults)

SpecPool == Init /\ [][PoolNext]_vars

(***************************************************************************)
(* withNotionRetry, step by step: one call of it, the task settling as     *)
(* the environment decides.                                                *)
(***************************************************************************)
\* What an invocation of the task can settle with: a fulfilment, or an
\* error object with its status (0: none) and retry-after header in
\* seconds (0: absent or unusable).  The client sets no other field.
NoTags == {}

Fulfilment == [status |-> OkStatus, retryAfter |-> 0, tags |-> NoTags]

TaskErrors ==
  {[status |-> st, retryAfter |-> ra, tags |-> NoTags] :
     st \in {429, 500, 502, 503, 400, 404, 0}, ra \in {0, 2}}

\* Math.floor(Math.random() * 250) ranges over 0..249; its two ends.
JitterSamples == {0, 249}

\* A variant of the backoff that grows by one second per attempt.
getRetryDelay_Linear(error, attempt, jitter) ==
  IF error.retryAfter > 0
    THEN error.retryAfter * 1000
    ELSE Min(1000 * (attempt + 1), 4000) + jitter

getRetryDelay(error, attempt, jitter) ==
  IF error.retryAfter > 0
    THEN error.retryAfter * 1000
    ELSE Min(1000 * (2 ^ attempt), 4000) + jitter

\* withNotionRetry is called: the loop begins and invokes the task.
RetryCall ==
  /\ retry.pc = "idle"
  /\ retry' = [retry EXCEPT !.pc = "task"]
  /\ UNCHANGED <<pipelineVars, call, voteState>>

\* Variants of the loop's body: one that goes to the next attempt without
\* sleeping, and one that rethrows the first error it caught.
RetryTaskSettles_NoSleep(o, jitter) ==
  /\ retry.pc = "task"
  /\ retry' =
       IF o.status = OkStatus
         THEN [retry EXCEPT !.pc = "returned", !.seen = Append(@, o),
                            !.result = [kind |-> "return", value |-> o]]
       ELSE IF ~isNotionRetryable(o) \/ retry.attempt = MAX_NOTION_RETRIES
         THEN [retry EXCEPT !.pc = "thrown", !.seen = Append(@, o),
                            !.result = [kind |-> "throw", value |-> o]]
       ELSE [retry EXCEPT !.pc = "sleep", !.seen = Append(@, o)]
  /\ UNCHANGED <<pipelineVars, call, voteState>>

RetryTaskSettles_ThrowsFirst(o, jitter) ==
  /\ retry.pc = "task"
  /\ retry' =
       IF o.status = OkStatus
         THEN [retry EXCEPT !.pc = "returned", !.seen = Append(@, o),
                            !.result = [kind |-> "return", value |-> o]]
       ELSE IF ~isNotionRetryable(o) \/ retry.attempt = MAX_NOTION_RETRIES
         THEN [retry EXCEPT !.pc = "thrown", !.seen = Append(@, o),
                            !.result = [kind |-> "throw",
                                        value |-> Append(retry.seen, o)[1]]]
       ELSE [retry EXCEPT !.pc = "sleep", !.seen = Append(@, o),
                          !.delays = Append(@, getRetryDelay(o, retry.attempt, jitter))]
  /\ UNCHANGED <<pipelineVars, call, voteState>>

\* The invoked task settles with o: the call returns, rethrows the error it
\* caught, or sleeps before the next attempt.
RetryTaskSettles(o, jitter) ==
  /\ retry.pc = "task"
  /\ retry' =
       IF o.status = OkStatus
         THEN [retry EXCEPT !.pc = "returned", !.seen = Append(@, o),
                            !.result = [kind |-> "return", value |-> o]]
       ELSE IF ~isNotionRetryable(o) \/ retry.attempt = MAX_NOTION_RETRIES
         THEN [retry EXCEPT !.pc = "thrown", !.seen = Append(@, o),
                            !.result = [kind |-> "throw", value |-> o]]
       ELSE [retry EXCEPT !.pc = "sleep", !.seen = Append(@, o),
                          !.delays = Append(@, getRetryDelay(o, retry.attempt, jitter))]
  /\ UNCHANGED <<pipelineVars, call, voteState>>

\* The sleep ends: the loop's next round invokes the task again.
RetrySleepEnds ==
  /\ retry.pc = "sleep"
  /\ retry' = [retry EXCEPT !.pc = "task", !.attempt = @ + 1]
  /\ UNCHANGED <<pipelineVars, call, voteState>>

RetryNext ==
  \/ RetryCall
  \/ \E o \in {Fulfilment} \cup TaskErrors, jitter \in JitterSamples :
       RetryTaskSettles(o, jitter)
  \/ RetrySleepEnds

RetryInit ==
  /\ Init
  /\ VOTE_JOB_CONCURRENCY = 1
  /\ VOTE_UPDATE_CONCURRENCY = 2
  /\ \A k \in KeyIds : ~isUsedPropertyValue(keyPages[k].used)

SpecRetry == RetryInit /\ [][RetryNext]_vars

(***************************************************************************)
(* Pure functions, called on their own: the input is there from the start  *)
(* and one step computes the result.                                       *)
(***************************************************************************)
\* The pipeline at rest while a function is called on its own.
CallInit ==
  /\ PipelineInit
  /\ VOTE_JOB_CONCURRENCY = 1
  /\ VOTE_UPDATE_CONCURRENCY = 2
  /\ \A k \in KeyIds : ~isUsedPropertyValue(keyPages[k].used)
  /\ retry = RetryIdle

Called(fn, input) == [pc |-> "called", fn |-> fn, input |-> input]

Returns(fn, output) ==
  /\ call.pc = "called"
  /\ call.fn = fn
  /\ call' = [pc |-> "returned", fn |-> fn, input |-> call.input,
              output |-> output]
  /\ UNCHANGED <<pipelineVars, retry, voteState>>

\* The votes arrays of request bodies: entries with an id (possibly empty)
\* and a count (possibly zero or negative).
VoteLists ==
  UNION {[1 .. n -> {Vote(id, count) : id \in TargetIds \cup {""},
                                       count \in -1 .. MaxCount}] :
           n \in 0 .. MaxVotes}

\* POST /api/votes up to aggregatedVotes: the filter, then the aggregator.
SanitizeReturns ==
  /\ call.pc = "called"
  /\ call.fn = "votes"
  /\ call' = [pc |-> "called", fn |-> "aggregateVotes",
              input |-> sanitizeVotes(call.input)]
  /\ UNCHANGED <<pipelineVars, retry, voteState>>

AggregateVotesReturns ==
  Returns("aggregateVotes", aggregateVotes(call.input))

AggregateNext == SanitizeReturns \/ AggregateVotesReturns

AggregateInit ==
  /\ CallInit
  /\ call \in {Called("votes", votes) : votes \in VoteLists}

SpecAggregate == AggregateInit /\ [][AggregateNext]_vars

\* buildResultUpdate called on its own: contents whose length is around a
\* whole number of chunks, below, at and above the cap, for a result column
\* of either accepted type and of one that is not.
MaxSlack == 2

ChunkCounts == {0, 1, 2, MAX_RESULT_CHUNKS - 1, MAX_RESULT_CHUNKS,
                MAX_RESULT_CHUNKS + 1}

ContentLengths ==
  {n \in {k * MAX_RESULT_CHUNK_LENGTH + d :
            k \in ChunkCounts, d \in -MaxSlack .. MaxSlack} : n >= 0}

ResultColumnTypes == {"rich_text", "title", "number"}

BuildResultUpdateReturns ==
  Returns("buildResultUpdate",
          buildResultUpdate(call.input.propertySchema, call.input.content))

ChunksNext == BuildResultUpdateReturns

ChunksInit ==
  /\ CallInit
  /\ call \in {Called("buildResultUpdate",
                      [propertySchema |-> [type |-> type],
                       content |-> [of |-> [body |-> "text"], length |-> n]]) :
                 type \in ResultColumnTypes, n \in ContentLengths}

SpecChunks == ChunksInit /\ [][ChunksNext]_vars

(***************************************************************************)
(* POST /api/vote-key: the key check a client makes before it submits.     *)
(* The handler runs outside the job queue; `call` holds where it stands.   *)
(***************************************************************************)
\* The text of the key column on a key record.
KeyText(keyId) == CASE keyId = "k1" -> "key1" [] OTHER -> ""

\* req.body.key: a key on record, the same with blanks around it, a key
\* not on record, an empty string, and NoValue for a body without a string.
KeyInputs == {"key1", " key1 ", "key2", "", NoValue}

\* The first page whose key column equals keyValue, NoValue for null.
findKeyPageByValue(keyValue, keyProperty) ==
  LET pages == {k \in KeyIds : KeyText(k) = keyValue}
  IN IF pages = {} THEN NoValue ELSE CHOOSE k \in pages : TRUE

\* A variant of the answer that never looks at the used column.
verifyKeyResponse_IgnoresUsed(page) ==
  IF page = NoValue THEN [status |-> 404, error |-> "Invalid key"]
  ELSE [status |-> OkStatus, keyId |-> page]

\* The handler's answer once the page is here.
verifyKeyResponse(page) ==
  IF page = NoValue THEN [status |-> 404, error |-> "Invalid key"]
  ELSE IF isUsedPropertyValue(keyPages[page].used)
    THEN [status |-> 403, error |-> "Key used"]
  ELSE [status |-> OkStatus, keyId |-> page]

VerifyReturns(key, output) ==
  [pc |-> "returned", fn |-> "verifyKey", input |-> key, output |-> output]

VerifyFailed(key, message) ==
  VerifyReturns(key, [status |-> 500, error |-> "Key validation failed",
                      message |-> message])

\* The handler from the schema to the query it issues.
VerifyAfterKeySchema(key, properties) ==
  IF Threw(resolveKeyProperty(properties))
    THEN VerifyFailed(key, "Unable to locate key property in key_db.")
  ELSE IF Threw(resolveUsedProperty(properties))
    THEN VerifyFailed(key, "Unable to locate used flag property in key_db.")
  ELSE [pc |-> "qKeyPages", fn |-> "verifyKey", input |-> key,
        properties |-> properties]

\* The request arrives: the handler up to its first await.
VerifyKeyRequest(body) ==
  /\ call.pc = "idle"
  /\ LET key == IF body = NoValue THEN "" ELSE trim(body) IN
     call' = IF ~keyDatabaseId
               THEN VerifyReturns(key, [status |-> 500,
                                        error |-> "Missing key database config"])
             ELSE IF key = ""
               THEN VerifyReturns(key, [status |-> 400, error |-> "Missing key"])
             ELSE IF keyCacheFresh
               THEN VerifyAfterKeySchema(key, cachedKeyDatabaseProperties)
             ELSE [pc |-> "rKeySchema", fn |-> "verifyKey", input |-> key,
                   served |-> keyDbSchema]
  /\ UNCHANGED <<pipelineVars, retry, voteState>>

\* A variant of the fetch that keeps a cache another refresh has filled in
\* the meantime.
VerifyKeySchemaRetrieved_KeepsFirst(out) ==
  /\ NotionCallSettles(out)
  /\ call.pc = "rKeySchema"
  /\ IF out.kind = "return"
       THEN \E properties \in RetrievedProperties(call.served) :
              /\ IF keyCacheFresh
                   THEN UNCHANGED keyCacheVars
                   ELSE /\ cachedKeyDatabaseProperties' = properties
                        /\ cachedKeyDatabasePropertiesExpiresAt' =
                             now + NOTION_CACHE_TTL_MS
              /\ call' = VerifyAfterKeySchema(call.input, properties)
       ELSE /\ call' = VerifyFailed(call.input, ErrorMessage(out.status))
            /\ UNCHANGED keyCacheVars
  /\ UNCHANGED <<configVars, queueVars, job, record, durable, response, run,
                 keyPages, votePages, voteCacheVars, written, retry, voteState>>

\* fetchKeyDatabaseProperties' databases.retrieve settles.
VerifyKeySchemaRetrieved(out) ==
  /\ NotionCallSettles(out)
  /\ call.pc = "rKeySchema"
  /\ IF out.kind = "return"
       THEN \E properties \in RetrievedProperties(call.served) :
              /\ cachedKeyDatabaseProperties' = properties
              /\ cachedKeyDatabasePropertiesExpiresAt' =
                   now + NOTION_CACHE_TTL_MS
              /\ call' = VerifyAfterKeySchema(call.input, properties)
       ELSE /\ call' = VerifyFailed(call.input, ErrorMessage(out.status))
            /\ UNCHANGED keyCacheVars
  /\ UNCHANGED <<configVars, queueVars, job, record, durable, response, run,
                 keyPages, votePages, voteCacheVars, written, retry, voteState>>

\* queryDatabasePages' databases.query settles; the call is not wrapped in
\* withNotionRetry, so one failed invocation is the call's failure.
QueryOutcomes(maxApiFaults) ==
  {out \in {[kind |-> "return", status |-> OkStatus],
            [kind |-> "throw", status |-> 429]} :
     out.kind = "return" \/ apiFaults < maxApiFaults}

VerifyKeyPagesQueried(out) ==
  /\ NotionCallSettles(out)
  /\ call.pc = "qKeyPages"
  /\ call' = IF out.kind = "return"
               THEN VerifyReturns(call.input,
                      verifyKeyResponse(
                        findKeyPageByValue(call.input,
                                           resolveKeyProperty(call.properties))))
               ELSE VerifyFailed(call.input, ErrorMessage(out.status))
  /\ UNCHANGED <<configVars, queueVars, job, record, durable, response, run,
                 keyPages, votePages, keyCacheVars, voteCacheVars, written,
                 retry, voteState>>

\* A key check while one submission is on its way.
VerifyBodies == {[votes |-> <<Vote("b", 1)>>, results |-> NoValue]}

VerifyNext ==
  \/ PipelineNext({1}, KeyIds, VerifyBodies, MaxLiveApiFaults, MaxStorageFaults)
  \/ \E body \in KeyInputs : VerifyKeyRequest(body)
  \/ \E out \in Outcomes(MaxLiveApiFaults) : VerifyKeySchemaRetrieved(out)
  \/ \E out \in QueryOutcomes(MaxLiveApiFaults) : VerifyKeyPagesQueried(out)

SpecVerify == Init /\ [][VerifyNext]_vars

(***************************************************************************)
(* resolveUsedProperty on a schema column by column.  `properties` is the  *)
(* schema's columns in Object.entries order, each [name, type]; `override` *)
(* is process.env.KEY_DB_USED_PROPERTY, NoValue when unset or empty.       *)
(***************************************************************************)
\* Stand-ins for the four names of the source (U+662F U+5426 U+5DF2 U+7ECF
\* U+4F7F U+7528 U+FF1F; the same without the mark; U+662F U+5426 U+5DF2
\* U+4F7F U+7528; U+662F U+5426 U+4F7F U+7528), in the source's order.
KEY_USED_EXACT_NAMES ==
  <<"shifouyijingshiyong?", "shifouyijingshiyong", "shifouyishiyong",
    "shifoushiyong">>

\* Stand-ins for U+4F7F U+7528, U+5DF2 U+7528, U+5DF2 U+4F7F U+7528,
\* U+72B6 U+6001, and the two English matchers.
KEY_USED_MATCHERS ==
  <<"shiyong", "yiyong", "yishiyong", "zhuangtai", "used", "status">>

UsedAllowedTypes ==
  {"checkbox", "select", "status", "rich_text", "title", "number"}

\* The matchers the lower-cased name includes.
MatchersIncluded(name) ==
  CASE name \in {"shifouyijingshiyong?", "shifouyijingshiyong", "shifoushiyong"} ->
         {"shiyong"}
    [] name = "shifouyishiyong" -> {"shiyong", "yishiyong"}
    [] name = "Used" -> {"used"}
    [] name = "Status" -> {"status"}
    [] name = "toupiaomima" -> {"mima"}
    [] name = "Passcode" -> {"pass", "code"}
    [] name = "Key" -> {"key"}
    [] name = "toupiaojieguo" -> {"toupiaojieguo", "jieguo"}
    [] name = "Result" -> {"result"}
    [] name = "Vote JSON" -> {"vote", "json"}
    [] OTHER -> {}

matchesPropertyName(name, matcher) == matcher \in MatchersIncluded(name)

\* The index of the column called `name`, 0 when properties[name] is
\* undefined.
IndexOfName(properties, name) ==
  IF \E i \in DOMAIN properties : properties[i].name = name
    THEN CHOOSE i \in DOMAIN properties : properties[i].name = name
    ELSE 0

\* A variant of the fuzzy search that returns the last match.
findPropertyEntry_Last(properties, matchers, allowedTypes) ==
  LET found == {i \in DOMAIN properties :
                  /\ properties[i].type \in allowedTypes
                  /\ \E m \in DOMAIN matchers :
                       matchesPropertyName(properties[i].name, matchers[m])}
  IN IF found = {} THEN 0 ELSE CHOOSE i \in found : \A k \in found : k <= i

\* Object.entries(properties).find(...): the index of the first column of
\* an allowed type whose name some matcher matches, 0 for undefined.
findPropertyEntry(properties, matchers, allowedTypes) ==
  LET found == {i \in DOMAIN properties :
                  /\ properties[i].type \in allowedTypes
                  /\ \E m \in DOMAIN matchers :
                       matchesPropertyName(properties[i].name, matchers[m])}
  IN IF found = {} THEN 0 ELSE CHOOSE i \in found : \A k \in found : i <= k

\* A variant of the exact-name search that prefers the name listed last.
findExactName_LastListed(properties, names) ==
  LET present == {n \in DOMAIN names : IndexOfName(properties, names[n]) # 0}
  IN IF present = {} THEN NoValue
     ELSE names[CHOOSE n \in present : \A k \in present : k <= n]

\* names.find((name) => properties[name]): the first listed name the
\* schema has, NoValue for undefined.
findExactName(properties, names) ==
  LET present == {n \in DOMAIN names : IndexOfName(properties, names[n]) # 0}
  IN IF present = {} THEN NoValue
     ELSE names[CHOOSE n \in present : \A k \in present : n <= k]

Resolved(properties, name) ==
  [name |-> name,
   schema |-> [type |-> properties[IndexOfName(properties, name)].type]]

resolveUsedColumn(properties, override) ==
  IF override # NoValue /\ IndexOfName(properties, override) # 0
    THEN Resolved(properties, override)
  ELSE IF findExactName(properties, KEY_USED_EXACT_NAMES) # NoValue
    THEN Resolved(properties, findExactName(properties, KEY_USED_EXACT_NAMES))
  ELSE LET entry == findPropertyEntry(properties, KEY_USED_MATCHERS,
                                      UsedAllowedTypes)
       IN IF entry = 0 THEN [type |-> "throw"]
          ELSE Resolved(properties, properties[entry].name)

\* The schemas explored: up to MaxColumns columns, among them the first and
\* the last exact name, a name a matcher matches and one none matches, of
\* an allowed boolean type, an allowed text type or a type not allowed.
MaxColumns == 3

ColumnNames == {KEY_USED_EXACT_NAMES[1], KEY_USED_EXACT_NAMES[4], "Used", "Notes"}

ColumnTypes == {"checkbox", "select", "date"}

Columns == {[name |-> n, type |-> t] : n \in ColumnNames, t \in ColumnTypes}

Schemas ==
  UNION {{properties \in [1 .. n -> Columns] :
            \A i, k \in 1 .. n : i # k => properties[i].name # properties[k].name} :
           n \in 0 .. MaxColumns}

Overrides == {NoValue, "Used", "Notes", "Absent"}

ResolveUsedPropertyReturns ==
  Returns("resolveUsedProperty",
          resolveUsedColumn(call.input.properties, call.input.override))

ResolveNext == ResolveUsedPropertyReturns

ResolveInit ==
  /\ CallInit
  /\ call \in {Called("resolveUsedProperty",
                      [properties |-> properties, override |-> override]) :
                 properties \in Schemas, override \in Overrides}

SpecResolve == ResolveInit /\ [][ResolveNext]_vars

(***************************************************************************)
(* markKeyUsed up to its pages.update, on a schema column by column: the   *)
(* used column is resolved, then the write for its type is built.          *)
(***************************************************************************)
\* The schemas explored: columns bearing an exact name, a name a matcher
\* matches or one none matches, of every type the fuzzy step allows and of
\* one it does not.
UsedColumnNames == {KEY_USED_EXACT_NAMES[1], "Used", "Notes"}

UsedColumnTypes == UsedAllowedTypes \cup {"date"}

UsedSchemas ==
  UNION {{properties \in
            [1 .. n -> {[name |-> c, type |-> t] :
                          c \in UsedColumnNames, t \in UsedColumnTypes}] :
            \A i, k \in 1 .. n : i # k => properties[i].name # properties[k].name} :
           n \in 0 .. MaxColumns}

\* markKeyUsed's resolveUsedProperty returns or throws.
MarkKeyUsedResolves ==
  /\ call.pc = "called"
  /\ call.fn = "markKeyUsed"
  /\ LET usedProperty ==
           resolveUsedColumn(call.input.properties, call.input.override)
     IN call' = IF usedProperty = [type |-> "throw"]
                  THEN [pc |-> "returned", fn |-> "markKeyUsed",
                        input |-> call.input, output |-> usedProperty]
                  ELSE Called("buildUsedUpdate", usedProperty)
  /\ UNCHANGED <<pipelineVars, retry, voteState>>

BuildUsedUpdateReturns ==
  Returns("buildUsedUpdate", buildUsedUpdate(call.input.schema))

MarkUsedNext == MarkKeyUsedResolves \/ BuildUsedUpdateReturns

MarkUsedInit ==
  /\ CallInit
  /\ call \in {Called("markKeyUsed",
                      [properties |-> properties, override |-> override]) :
                 properties \in UsedSchemas, override \in {NoValue, "Notes"}}

SpecMarkUsed == MarkUsedInit /\ [][MarkUsedNext]_vars

(***************************************************************************)
(* The resolvers of the key and the result column, column by column, and   *)
(* the three resolvers called on their own.                                *)
(***************************************************************************)
\* Stand-ins for U+6295 U+7968 U+5BC6 U+7801 and U+6295 U+7968 U+7ED3
\* U+679C.
KEY_VALUE_EXACT_NAMES == <<"toupiaomima">>

KEY_RESULT_EXACT_NAMES == <<"toupiaojieguo">>

\* Stand-ins for U+5BC6 U+7801, U+5BC6 U+94A5, U+53E3 U+4EE4, and the
\* four English matchers.
KEY_VALUE_MATCHERS ==
  <<"mima", "miyao", "kouling", "key", "pass", "code", "token">>

\* Stand-ins for U+6295 U+7968 U+7ED3 U+679C, U+7ED3 U+679C, and the three
\* English matchers.
KEY_RESULT_MATCHERS == <<"toupiaojieguo", "jieguo", "json", "vote", "result">>

KeyAllowedTypes == {"title", "rich_text", "select", "number"}

ResultAllowedTypes == {"rich_text", "title"}

\* Object.entries(properties).find(([, property]) => property.type ===
\* type): the index of the first column of the type, 0 for undefined.
findFirstOfType(properties, type) ==
  LET found == {i \in DOMAIN properties : properties[i].type = type}
  IN IF found = {} THEN 0 ELSE CHOOSE i \in found : \A k \in found : i <= k

\* A variant of the key resolver's last resort that looks for a rich_text
\* column before a title column.
keyFallback_TextFirst(properties) ==
  IF findFirstOfType(properties, "rich_text") # 0
    THEN findFirstOfType(properties, "rich_text")
    ELSE findFirstOfType(properties, "title")

\* resolveKeyProperty's last resort: the first title column, else the
\* first rich_text column.
keyFallback(properties) ==
  IF findFirstOfType(properties, "title") # 0
    THEN findFirstOfType(properties, "title")
    ELSE findFirstOfType(properties, "rich_text")

resolveKeyColumn(properties, override) ==
  IF override # NoValue /\ IndexOfName(properties, override) # 0
    THEN Resolved(properties, override)
  ELSE IF findExactName(properties, KEY_VALUE_EXACT_NAMES) # NoValue
    THEN Resolved(properties, findExactName(properties, KEY_VALUE_EXACT_NAMES))
  ELSE LET entry == findPropertyEntry(properties, KEY_VALUE_MATCHERS,
                                      KeyAllowedTypes)
       IN IF entry # 0 THEN Resolved(properties, properties[entry].name)
          ELSE IF keyFallback(properties) # 0
            THEN Resolved(properties, properties[keyFallback(properties)].name)
          ELSE [type |-> "throw"]

\* resolveResultProperty's last resort: the first rich_text column that is
\* neither the key column nor the used column.
resultFallback(properties, keyPropertyName, usedPropertyName) ==
  LET found == {i \in DOMAIN properties :
                  /\ properties[i].type = "rich_text"
                  /\ properties[i].name # keyPropertyName
                  /\ properties[i].name # usedPropertyName}
  IN IF found = {} THEN 0 ELSE CHOOSE i \in found : \A k \in found : i <= k

resolveResultColumn(properties, override, keyPropertyName, usedPropertyName) ==
  IF override # NoValue /\ IndexOfName(properties, override) # 0
    THEN Resolved(properties, override)
  ELSE IF findExactName(properties, KEY_RESULT_EXACT_NAMES) # NoValue
    THEN Resolved(properties, findExactName(properties, KEY_RESULT_EXACT_NAMES))
  ELSE LET entry == findPropertyEntry(properties, KEY_RESULT_MATCHERS,
                                      ResultAllowedTypes)
           last == resultFallback(properties, keyPropertyName, usedPropertyName)
       IN IF entry # 0 THEN Resolved(properties, properties[entry].name)
          ELSE IF last # 0 THEN Resolved(properties, properties[last].name)
          ELSE [type |-> "throw"]

Roles == {"key", "used", "result"}

\* The column names explored for a role: its exact names, names its
\* matchers match, and a name none matches.
RoleColumnNames(role) ==
  CASE role = "key" -> {"toupiaomima", "Passcode", "Key", "Notes", "Memo"}
    [] role = "used" ->
         {KEY_USED_EXACT_NAMES[1], KEY_USED_EXACT_NAMES[4], "Used", "Status",
          "Notes"}
    [] role = "result" -> {"toupiaojieguo", "Result", "Vote JSON", "Notes"}

RoleColumnTypes == {"title", "rich_text", "checkbox", "number"}

RoleSchemas(role) ==
  UNION {{properties \in
            [1 .. n -> {[name |-> c, type |-> t] :
                          c \in RoleColumnNames(role), t \in RoleColumnTypes}] :
            \A i, k \in 1 .. n : i # k => properties[i].name # properties[k].name} :
           n \in 0 .. MaxColumns}

\* The override of the role's environment variable: unset, naming a column
\* the schemas may have, naming one they do not have.
RoleOverrides == {NoValue, "Notes", "Absent"}

\* The key column's name handed to resolveResultProperty (the used
\* column's is one no schema has).
KeyPropertyNames(role) == IF role = "result" THEN {"Notes", "Vote JSON"} ELSE {NoValue}

resolveRole(role, input) ==
  CASE role = "key" -> resolveKeyColumn(input.properties, input.override)
    [] role = "used" -> resolveUsedColumn(input.properties, input.override)
    [] role = "result" ->
         resolveResultColumn(input.properties, input.override,
                             input.keyPropertyName, input.usedPropertyName)

ResolveRoleReturns ==
  \E role \in Roles : Returns(role, resolveRole(role, call.input))

RolesNext == ResolveRoleReturns

RolesInit ==
  /\ CallInit
  /\ \E role \in Roles :
       \E properties \in RoleSchemas(role), override \in RoleOverrides,
          keyPropertyName \in KeyPropertyNames(role) :
         call = Called(role, [properties |-> properties, override |-> override,
                              keyPropertyName |-> keyPropertyName,
                              usedPropertyName |-> "Absent"])

SpecRoles == RolesInit /\ [][RolesNext]_vars

(***************************************************************************)
(* isUsedPropertyValue called on its own, on a property of a key page.     *)
(***************************************************************************)
\* The names of options and the texts of text columns explored: the six
\* words, in other case, with blanks around, inside longer texts, other
\* words, and the empty text.
RawTexts ==
  {"shi", "yes", "YES", " Yes ", "true", "TRUE", "yiyong", "yishiyong",
   "used", "Used", "used ", "yes please", "unused", "not used", "no", "1", ""}

MaxNumber == 2

PageProperties ==
  {[type |-> "checkbox", checkbox |-> b] : b \in BOOLEAN}
    \cup {[type |-> t, text |-> w] :
            t \in {"select", "status", "rich_text", "title"}, w \in RawTexts}
    \cup {[type |-> "number", number |-> n] : n \in -1 .. MaxNumber}
    \cup {[type |-> "number"], [type |-> "date"], NoProperty}

IsUsedPropertyValueReturns ==
  Returns("isUsedPropertyValue", isUsedPropertyValue(call.input))

UsedValueNext == IsUsedPropertyValueReturns

UsedValueInit ==
  /\ CallInit
  /\ \E property \in PageProperties :
       call = Called("isUsedPropertyValue", property)

SpecUsedValue == UsedValueInit /\ [][UsedValueNext]_vars

(***************************************************************************)
(* Properties.                                                             *)
(***************************************************************************)
Terminal(j) == record[j].status \in {"completed", "failed"}

\* Where a job stands while runVoteJob runs it: from the drain that starts
\* it to the finally handler that releases its slot.
RunningPcs ==
  {"wProcessing", "rKeySchema", "rKeyPage", "rVoteSchema", "pool",
   "wResult", "wUsed", "wTerminal"}

Running == {j \in JobIds : run[j].pc \in RunningPcs}

Finished == {j \in JobIds : run[j].pc = "done"}

NoDuplicates(seq) == Cardinality(Range(seq)) = Len(seq)

\* The jobs that wrote a vote count.
Redeemers(keyId) ==
  {j \in JobIds : record[j].status # "none" /\ job[j].keyId = keyId
                  /\ written[j].votes # {}}

\* How often the retried task has been invoked so far.
Calls == Len(retry.seen) + (IF retry.pc = "task" THEN 1 ELSE 0)

Statuses(seq) == [i \in DOMAIN seq |-> seq[i].status]

(***************************************************************************)
(* C1.  A key is redeemed at most once: over every interleaving of         *)
(* submissions and job executions, at most one job carrying a given keyId  *)
(* ever writes a vote count.                                               *)
(***************************************************************************)
C1_KeyRedeemedAtMostOnce ==
  \A k \in KeyIds : Cardinality(Redeemers(k)) <= 1

(***************************************************************************)
(* C2.  An acknowledged submission has a durable record holding its votes  *)
(* and results, which is the queued record from the acknowledgement until  *)
(* the job's next record write settles; no job is enqueued without one;    *)
(* a submission whose record write failed is answered with an error and    *)
(* is never enqueued, started or run.                                      *)
(***************************************************************************)
C2_AcknowledgedIsDurable ==
  \A j \in JobIds :
    /\ (response[j] = "200" \/ j \in Range(enqueuedLog)) =>
         /\ response[j] = "200"
         /\ j \in Range(enqueuedLog)
         /\ durable[j] # NoRecord
         /\ durable[j].votes = job[j].sanitizedVotes
         /\ durable[j].results = job[j].resultsPayload
         /\ durable[j].keyId = job[j].keyId
         /\ run[j].pc \in {"queued", "wProcessing"} => durable[j].status = "queued"
    /\ run[j].pc = "saveFailed" =>
         /\ response[j] = "500"
         /\ durable[j] = NoRecord
         /\ record[j].status = "queued"
         /\ j \notin Range(enqueuedLog) \cup Range(startedLog) \cup Range(voteJobQueue)
         /\ written[j] = [votes |-> {}, key |-> {}]
    /\ response[j] = "500" => run[j].pc = "saveFailed"

C2_Witness ==
  \E j, i \in JobIds :
    /\ response[j] = "200" /\ run[j].pc = "wProcessing"
    /\ durable[j].status = "queued" /\ durable[j].votes # <<>>
    /\ response[i] = "500"

(***************************************************************************)
(* C3.  A job's status moves only queued -> processing -> completed or     *)
(* queued -> processing -> failed, one step at a time, and the record of a *)
(* completed or failed job never changes again.                            *)
(***************************************************************************)
StatusSteps ==
  {<<"none", "queued">>, <<"queued", "processing">>,
   <<"processing", "completed">>, <<"processing", "failed">>}

C3_StatusOnlyAdvances ==
  [][\A j \in JobIds :
       /\ record'[j].status # record[j].status =>
            <<record[j].status, record'[j].status>> \in StatusSteps
       /\ Terminal(j) => record'[j] = record[j]]_vars

C3_Witness ==
  \E j, i \in JobIds :
    /\ record[j].status = "completed" /\ run[j].pc = "done"
    /\ record[i].status = "failed" /\ run[i].pc = "done"
    /\ \E t \in DOMAIN run[i].tasks : run[i].tasks[t].st = "done"

(***************************************************************************)
(* C4.  Where every awaited Notion call and record write settles in the    *)
(* end, every enqueued job is eventually started by the dispatcher and     *)
(* eventually completed or failed.                                         *)
(***************************************************************************)
C4_EnqueuedJobsEnd ==
  \A j \in 1 .. MaxExecJobs :
    /\ (j \in Range(enqueuedLog)) ~> (j \in Range(startedLog))
    /\ (j \in Range(enqueuedLog)) ~> Terminal(j)

C4_Witness ==
  /\ VOTE_JOB_CONCURRENCY = 1
  /\ Len(enqueuedLog) = MaxExecJobs
  /\ enqueuedLog = startedLog
  /\ \A j \in 1 .. MaxExecJobs : Terminal(j) /\ run[j].pc = "done"
  /\ \E j \in 1 .. MaxExecJobs : record[j].status = "completed"

(***************************************************************************)
(* C5.  The occupancy counter is the number of jobs started and not yet    *)
(* finished; it is never negative and never above VOTE_JOB_CONCURRENCY;    *)
(* the started jobs are those running or finished, each started once.      *)
(***************************************************************************)
C5_OccupancyWithinBound ==
  /\ activeVoteJobs = Cardinality(Running)
  /\ activeVoteJobs >= 0
  /\ activeVoteJobs <= VOTE_JOB_CONCURRENCY
  /\ Range(startedLog) = Running \cup Finished
  /\ NoDuplicates(startedLog)

C5_Witness ==
  /\ VOTE_JOB_CONCURRENCY = 2
  /\ activeVoteJobs = 2
  /\ Len(voteJobQueue) = 1

(***************************************************************************)
(* C6.  Jobs enter processing in the order they were enqueued, whatever    *)
(* the dispatcher's bound: the jobs started so far are the first ones      *)
(* enqueued, in that order, and the queue holds the rest, in that order.   *)
(***************************************************************************)
C6_StartedInSubmissionOrder ==
  enqueuedLog = startedLog \o voteJobQueue

\* Three jobs were enqueued in an order that is not <<1, 2, 3>>, two of them
\* waited in the queue together, and the first one enqueued finished last.
C6_Witness ==
  /\ Len(startedLog) = MaxJobs
  /\ startedLog[1] # 1
  /\ VOTE_JOB_CONCURRENCY = 2
  /\ run[startedLog[1]].pc # "done"
  /\ run[startedLog[2]].pc = "done"
  /\ run[startedLog[3]].pc = "done"

(***************************************************************************)
(* C7.  A job that finds the key's used flag set when it re-fetches the    *)
(* key fails with the key-reuse error before it starts any vote-count      *)
(* update: it writes no vote count and no column of the key.               *)
(***************************************************************************)
UsedWhenRefetched(j) == isUsedPropertyValue(run[j].keyPage)

C7_UsedKeyFailsBeforeWrites ==
  \A j \in JobIds :
    UsedWhenRefetched(j) =>
      /\ record[j].status = "failed"
      /\ record[j].error = "Key already used."
      /\ run[j].pc \in {"wTerminal", "done"}
      /\ run[j].tasks = <<>>
      /\ written[j] = [votes |-> {}, key |-> {}]

\* A job failed on a key that an earlier job had redeemed and marked used.
C7_Witness ==
  \E j, i \in JobIds :
    /\ UsedWhenRefetched(j) /\ run[j].pc = "done"
    /\ record[j].error = "Key already used."
    /\ job[i].keyId = job[j].keyId
    /\ "used" \in written[i].key /\ written[i].votes # {}

(***************************************************************************)
(* C8.  withNotionRetry invokes the task at most 4 times; every invocation *)
(* but the first follows a failure with status 429, 500, 502 or 503 and    *)
(* one delay; a failure with any other status is rethrown at once, with    *)
(* no delay and no further invocation after it.                            *)
(***************************************************************************)
RetriedStatuses == {429, 500, 502, 503}

C8_RetriesOnlyRetryable ==
  /\ Calls <= 4
  /\ Len(retry.seen) <= 4
  /\ \A i \in DOMAIN retry.seen :
       LET o == retry.seen[i] IN
       /\ i < Calls => o.status \in RetriedStatuses
       /\ (o.status # OkStatus /\ o.status \notin RetriedStatuses) =>
            /\ i = Len(retry.seen)
            /\ retry.pc = "thrown"
            /\ retry.result = [kind |-> "throw", value |-> o]
            /\ Len(retry.delays) = i - 1
  /\ retry.pc \in {"task", "sleep"} => Len(retry.delays) = Calls - (IF retry.pc = "task" THEN 1 ELSE 0)

\* A 404 after two retried failures ended the call at its third invocation.
C8_Witness ==
  /\ retry.pc = "thrown"
  /\ Statuses(retry.seen) = <<429, 503, 404>>
  /\ Len(retry.delays) = 2

(***************************************************************************)
(* C9.  When k failures with a retried status (k <= 3) are followed by a   *)
(* fulfilment, withNotionRetry returns the fulfilment's value after k + 1  *)
(* invocations and k delays, and invokes the task no more.                 *)
(***************************************************************************)
C9_SuccessAfterKDelays ==
  \A k \in 0 .. MAX_NOTION_RETRIES :
    (/\ Len(retry.seen) = k + 1
     /\ \A i \in 1 .. k : retry.seen[i].status \in RetriedStatuses
     /\ retry.seen[k + 1].status = OkStatus) =>
      /\ retry.pc = "returned"
      /\ retry.result = [kind |-> "return", value |-> retry.seen[k + 1]]
      /\ Calls = k + 1
      /\ Len(retry.delays) = k

\* Two rate-limited failures, then a success.
C9_Witness ==
  /\ retry.pc = "returned"
  /\ Statuses(retry.seen) = <<429, 429, OkStatus>>
  /\ Len(retry.delays) = 2

(***************************************************************************)
(* C10.  When all 4 invocations fail with a retried status,                *)
(* withNotionRetry rethrows the 4th invocation's error after exactly 3     *)
(* delays.  As the specification has it, the error it rethrows is tagged   *)
(* as exhausted.                                                           *)
(***************************************************************************)
AllAttemptsFailed ==
  /\ Len(retry.seen) = MAX_NOTION_RETRIES + 1
  /\ \A i \in DOMAIN retry.seen : retry.seen[i].status \in RetriedStatuses

C10_ExhaustedIsTagged ==
  AllAttemptsFailed =>
    /\ retry.pc = "thrown"
    /\ retry.result.kind = "throw"
    /\ retry.result.value.status = retry.seen[MAX_NOTION_RETRIES + 1].status
    /\ "exhausted" \in retry.result.value.tags
    /\ Len(retry.delays) = 3

(***************************************************************************)
(* C10, as the code has it.  When all 4 invocations fail with a retried    *)
(* status, withNotionRetry rethrows the 4th invocation's error as it       *)
(* caught it, with nothing added that tells exhaustion from a first        *)
(* failure, after exactly 3 delays and 4 invocations.                      *)
(***************************************************************************)
C10_ExhaustedRethrowsLast ==
  AllAttemptsFailed =>
    /\ retry.pc = "thrown"
    /\ retry.result = [kind |-> "throw",
                       value |-> retry.seen[MAX_NOTION_RETRIES + 1]]
    /\ retry.result.value.tags = NoTags
    /\ Len(retry.delays) = 3
    /\ Calls = 4

\* Four failures, the first and the last of them different.
C10_Witness ==
  /\ retry.pc = "thrown"
  /\ Statuses(retry.seen) = <<500, 502, 503, 429>>
  /\ Len(retry.delays) = 3

(***************************************************************************)
(* C11.  For every list of filtered vote entries, the empty one included,  *)
(* aggregateVotes returns entries with pairwise distinct ids, one for each *)
(* id of the input and in the order the ids first occur, each with the sum *)
(* of the counts of the input's entries with that id; so the counts of the *)
(* output add up to the counts of the input.                               *)
(***************************************************************************)
RECURSIVE TotalCount(_)
TotalCount(votes) ==
  IF votes = <<>> THEN 0 ELSE Head(votes).count + TotalCount(Tail(votes))

CountOf(votes, id) == TotalCount(SelectSeq(votes, LAMBDA v : v.id = id))

FirstIndex(votes, id) ==
  CHOOSE i \in DOMAIN votes :
    votes[i].id = id /\ \A k \in 1 .. i - 1 : votes[k].id # id

Returned(fn) == call.pc = "returned" /\ call.fn = fn

C11_AggregateSumsPerTarget ==
  Returned("aggregateVotes") =>
    LET in == call.input
        out == call.output
    IN /\ \A i, k \in DOMAIN out : out[i].id = out[k].id => i = k
       /\ {out[i].id : i \in DOMAIN out} = {in[i].id : i \in DOMAIN in}
       /\ \A i \in DOMAIN out : out[i].count = CountOf(in, out[i].id)
       /\ \A i, k \in DOMAIN out :
            i < k => FirstIndex(in, out[i].id) < FirstIndex(in, out[k].id)
       /\ TotalCount(out) = TotalCount(in)

C11_Witness ==
  /\ Returned("aggregateVotes")
  /\ call.input = <<Vote("b", 1), Vote("a", 1), Vote("b", 2), Vote("a", 1)>>
  /\ call.output = <<Vote("b", 3), Vote("a", 2)>>

(***************************************************************************)
(* C12.  Within one job, the per-target updates in flight (page read,      *)
(* computed, not yet written) are never more than VOTE_UPDATE_CONCURRENCY, *)
(* nor more than the job has targets, whatever the number of targets; an   *)
(* item waits only while the pool is full.                                 *)
(***************************************************************************)
InFlight(j) ==
  {i \in DOMAIN run[j].tasks : run[j].tasks[i].st \in {"read", "write"}}

Pending(j) ==
  {i \in DOMAIN run[j].tasks : run[j].tasks[i].st = "pending"}

C12_PoolWithinWidth ==
  \A j \in JobIds :
    /\ Cardinality(InFlight(j)) <= VOTE_UPDATE_CONCURRENCY
    /\ Cardinality(InFlight(j)) <= Len(aggregatedVotes(j))
    /\ \A i \in Pending(j), k \in InFlight(j) \cup {0} : k < i

\* Three targets under a pool of two: the first is done, the other two are
\* in flight.
C12_Witness ==
  \E j \in JobIds :
    /\ VOTE_UPDATE_CONCURRENCY = 2
    /\ Len(run[j].tasks) = 3
    /\ run[j].tasks[1].st = "done"
    /\ InFlight(j) = {2, 3}

(***************************************************************************)
(* C13.  When the update of one target fails, performVoteUpdate throws and *)
(* the job ends failed with the failure's message; the vote counts the     *)
(* job wrote stay as it wrote them, and the job writes neither the result  *)
(* column nor the used flag of its key.                                    *)
(***************************************************************************)
FailedTasks(j) ==
  {i \in DOMAIN run[j].tasks : run[j].tasks[i].st = "failed"}

DoneTasks(j) ==
  {i \in DOMAIN run[j].tasks : run[j].tasks[i].st = "done"}

FailureMessages == {ErrorMessage(st) : st \in ApiStatuses \ {OkStatus}}

C13_PartialFailureFailsJob ==
  \A j \in JobIds :
    /\ FailedTasks(j) # {} =>
         /\ record[j].status = "failed"
         /\ record[j].error \in FailureMessages
         /\ record[j].updateResult = NoOutcome
         /\ run[j].pc \in {"wTerminal", "done"}
         /\ written[j].key = {}
         /\ keyPages[job[j].keyId].result = NoProperty
         /\ ~isUsedPropertyValue(keyPages[job[j].keyId].used)
    /\ \A i \in DoneTasks(j) :
         LET t == run[j].tasks[i] IN
         /\ t.id \in written[j].votes
         /\ t.next = t.previous + t.count
         /\ votePages[t.id] = t.next
    /\ written[j].votes = {run[j].tasks[i].id : i \in DoneTasks(j)}

\* Of three targets the first was written and the second failed; the job
\* is over, failed, and the third was never started.
C13_Witness ==
  \E j \in JobIds :
    /\ run[j].pc = "done" /\ record[j].status = "failed"
    /\ Len(run[j].tasks) = 3
    /\ run[j].tasks[1].st = "done"
    /\ run[j].tasks[2].st = "failed"
    /\ run[j].tasks[3].st = "pending"
    /\ votePages[run[j].tasks[1].id] = 2

(***************************************************************************)
(* C14.  In a job with a key whose vote-count updates all fulfilled, the   *)
(* result write and the used-flag write both settle, the second whatever   *)
(* the first did; each failure adds its message to resultsError;           *)
(* performVoteUpdate returns and the job ends completed, never failed;     *)
(* resultsSaved is true exactly when the result write fulfilled.           *)
(***************************************************************************)
KeyWritesMissing(j) == {"result", "used"} \ written[j].key

AllUpdatesFulfilled(j) ==
  /\ run[j].tasks # <<>>
  /\ \A i \in DOMAIN run[j].tasks : run[j].tasks[i].st = "done"

C14_KeyWriteFailuresAreRecorded ==
  \A j \in JobIds :
    /\ run[j].pc \in {"wResult", "wUsed"} =>
         record[j].status = "processing" /\ FailedTasks(j) = {}
    /\ run[j].pc = "wUsed" =>
         /\ run[j].resultsSaved = ("result" \in written[j].key)
         /\ Len(run[j].resultsError) = (IF run[j].resultsSaved THEN 0 ELSE 1)
         /\ "used" \notin written[j].key
    /\ AllUpdatesFulfilled(j) => record[j].status # "failed"
    /\ (AllUpdatesFulfilled(j) /\ run[j].pc \in {"wTerminal", "done"}) =>
         /\ record[j].status = "completed"
         /\ run[j].resultsSaved = ("result" \in written[j].key)
         /\ Len(run[j].resultsError) = Cardinality(KeyWritesMissing(j))
         /\ \A i \in DOMAIN run[j].resultsError :
              run[j].resultsError[i] \in FailureMessages
         /\ record[j].updateResult.resultsSaved = run[j].resultsSaved
         /\ record[j].updateResult.resultsError = run[j].resultsError

\* Both key writes failed and the job is completed, its votes written.
C14_Witness ==
  \E j \in JobIds :
    /\ run[j].pc = "done" /\ record[j].status = "completed"
    /\ written[j].votes # {} /\ written[j].key = {}
    /\ Len(record[j].updateResult.resultsError) = 2
    /\ ~record[j].updateResult.resultsSaved

\* The result write failed and the used flag was set all the same.
C14_WitnessUsedAfterFailure ==
  \E j \in JobIds :
    /\ record[j].status = "completed"
    /\ written[j].key = {"used"}
    /\ Len(record[j].updateResult.resultsError) = 1

(***************************************************************************)
(* C15.  With no failing call, a submission on an unused key, whose votes  *)
(* may name a target more than once, ends as a completed job: updated is   *)
(* the number of distinct targets, every target's stored count is raised   *)
(* by the sum of its counts, the key's used predicate is true afterwards   *)
(* and the result column holds the JSON text of the payload, whole.        *)
(***************************************************************************)
\* The chunks are the content's text from its first character to its last,
\* in order, with nothing added.
StoredWhole(chunks, length) ==
  /\ (length = 0) = (chunks = <<>>)
  /\ \A i \in DOMAIN chunks :
       /\ chunks[i].suffix = 0
       /\ chunks[i].from = (IF i = 1 THEN 0 ELSE chunks[i - 1].to)
       /\ chunks[i].from < chunks[i].to
       /\ chunks[i].to - chunks[i].from <= MAX_RESULT_CHUNK_LENGTH
       /\ i = Len(chunks) => chunks[i].to = length

NoFailure == apiFaults = 0 /\ storageFaults = 0

C15_RepeatedTargetsEndToEnd ==
  \A j \in {1} :
    (/\ NoFailure
     /\ run[j].pc \in {"wTerminal", "done"}
     /\ ~isUsedPropertyValue(run[j].keyPage)) =>
      LET votes == job[j].sanitizedVotes
          ids == {votes[i].id : i \in DOMAIN votes}
          outcome == record[j].updateResult
          key == keyPages[job[j].keyId]
      IN /\ record[j].status = "completed"
         /\ run[j].pc = "done" => durable[j] = record[j]
         /\ outcome.updated = Cardinality(ids)
         /\ \A t \in TargetIds : votePages[t] = CountOf(votes, t)
         /\ \A i \in DOMAIN outcome.results :
              /\ outcome.results[i].previous = 0
              /\ outcome.results[i].next = CountOf(votes, outcome.results[i].id)
         /\ {outcome.results[i].id : i \in DOMAIN outcome.results} = ids
         /\ outcome.resultsSaved /\ outcome.resultsError = <<>>
         /\ isUsedPropertyValue(key.used)
         /\ key.result.type = "rich_text"
         /\ key.result.of = job[j].resultsPayload
         /\ StoredWhole(key.result.chunks,
                        JSONstringify(job[j].resultsPayload).length)

\* The submission a:1, a:1, b:2 without a results field is done.
C15_Witness ==
  /\ NoFailure
  /\ run[1].pc = "done"
  /\ record[1].status = "completed"
  /\ job[1].sanitizedVotes = <<Vote("a", 1), Vote("a", 1), Vote("b", 2)>>
  /\ record[1].updateResult.updated = 2
  /\ votePages = [t \in TargetIds |-> IF t = "c" THEN 0 ELSE 2]
  /\ keyPages[job[1].keyId].result.of =
       [body |-> NoValue, votes |-> job[1].sanitizedVotes]
  /\ Len(keyPages[job[1].keyId].result.chunks) = 1

\* A payload of three chunks is stored whole.
C15_WitnessLong ==
  /\ NoFailure
  /\ run[1].pc = "done"
  /\ record[1].status = "completed"
  /\ Len(keyPages[job[1].keyId].result.chunks) = 3

(***************************************************************************)
(* C17.  A result payload longer than 100 x 1900 characters is stored as   *)
(* at most 100 chunks of at most 1900 characters each, the last one ending *)
(* with the marker "...", so the stored text is never longer than the cap. *)
(***************************************************************************)
ChunkLength(chunk) == (chunk.to - chunk.from) + chunk.suffix

RECURSIVE StoredLength(_)
StoredLength(chunks) ==
  IF chunks = <<>> THEN 0
  ELSE ChunkLength(Head(chunks)) + StoredLength(Tail(chunks))

BeyondCap(length) == length > MAX_RESULT_CHUNKS * MAX_RESULT_CHUNK_LENGTH

C17_LongPayloadTruncatedWithinCap ==
  (/\ Returned("buildResultUpdate")
   /\ ~Threw(call.output)
   /\ BeyondCap(call.input.content.length)) =>
    LET chunks == call.output.chunks
    IN /\ Len(chunks) >= 1
       /\ Len(chunks) <= MAX_RESULT_CHUNKS
       /\ \A i \in DOMAIN chunks :
            /\ ChunkLength(chunks[i]) <= MAX_RESULT_CHUNK_LENGTH
            /\ chunks[i].from = (IF i = 1 THEN 0 ELSE chunks[i - 1].to)
            /\ chunks[i].from <= chunks[i].to
            /\ chunks[i].suffix = (IF i = Len(chunks) THEN SuffixLength ELSE 0)
       /\ StoredLength(chunks) <= MAX_RESULT_CHUNKS * MAX_RESULT_CHUNK_LENGTH

\* A content one character over the cap came back as 100 chunks, the last
\* one cut to make room for the marker.
C17_Witness ==
  /\ Returned("buildResultUpdate")
  /\ ~Threw(call.output)
  /\ call.input.content.length = MAX_RESULT_CHUNKS * MAX_RESULT_CHUNK_LENGTH + 1
  /\ Len(call.output.chunks) = MAX_RESULT_CHUNKS
  /\ call.output.chunks[MAX_RESULT_CHUNKS].suffix = SuffixLength
  /\ StoredLength(call.output.chunks) = MAX_RESULT_CHUNKS * MAX_RESULT_CHUNK_LENGTH

(***************************************************************************)
(* C18.  The key check answers with a keyId only for a key record that     *)
(* exists and whose used predicate is false when the check looks at it; a  *)
(* key without a record is answered "invalid", a key whose predicate is    *)
(* true "already used"; the check enqueues no job and writes nothing to    *)
(* the key record.                                                         *)
(***************************************************************************)
KeyRecords(key) == {k \in KeyIds : KeyText(k) = key}

VerifyStep == call' # call

C18_VerifyKeyChecksRecord ==
  [][VerifyStep =>
       /\ UNCHANGED <<queueVars, job, record, durable, response, run, keyPages,
                      votePages, written>>
       /\ call'.pc = "returned" =>
            LET out == call'.output
                records == KeyRecords(call'.input)
            IN /\ out.status = OkStatus =>
                    /\ out.keyId \in records
                    /\ ~isUsedPropertyValue(keyPages[out.keyId].used)
               /\ out.status = 404 => records = {}
               /\ out.status = 403 =>
                    \E k \in records : isUsedPropertyValue(keyPages[k].used)
               /\ (call.pc = "qKeyPages" /\ apiFaults' = apiFaults) =>
                    /\ records = {} => out.status = 404
                    /\ (\E k \in records : isUsedPropertyValue(keyPages[k].used))
                         => out.status = 403]_vars

\* The check answered with the keyId of an unused key's record.
C18_Witness ==
  /\ Returned("verifyKey")
  /\ call.output.status = OkStatus
  /\ call.output.keyId = "k1"

\* The check turned away a key that a job had marked used before.
C18_WitnessUsed ==
  /\ Returned("verifyKey")
  /\ call.output.status = 403
  /\ written[1].key # {}

C18_WitnessInvalid ==
  /\ Returned("verifyKey")
  /\ call.output.status = 404

(***************************************************************************)
(* C19.  A job ends completed, with the outcome of performVoteUpdate in    *)
(* its record, exactly when performVoteUpdate returns, and ends failed,    *)
(* with the error's message in its record, exactly when performVoteUpdate  *)
(* throws; the error of a job reaches neither the dispatcher nor the       *)
(* request that enqueued it.                                               *)
(***************************************************************************)
\* performVoteUpdate is over for job j.
ApplyOver(j) == run[j].pc \in {"wTerminal", "done"}

\* The step ends performVoteUpdate for job j.
ApplyEnds(j) == ~ApplyOver(j) /\ run'[j].pc = "wTerminal"

\* The step ends performVoteUpdate with a throw: the awaited call failed
\* outside the key writes (whose errors performVoteUpdate catches), or the
\* key page just fetched is used.
ApplyRaises(j) ==
  \/ apiFaults' > apiFaults /\ run[j].pc \notin {"wResult", "wUsed"}
  \/ isUsedPropertyValue(run'[j].keyPage)

EndedCompleted(rec, r) ==
  /\ rec.status = "completed"
  /\ rec.updateResult = UpdateOutcome(r)
  /\ rec.error = NoValue

EndedFailed(rec) ==
  /\ rec.status = "failed"
  /\ rec.updateResult = NoOutcome
  /\ rec.error \in FailureMessages \cup {"Key already used."}

C19_TerminalStatusFollowsApply ==
  /\ [](\A j \in JobIds :
          /\ ApplyOver(j) =>
               /\ EndedCompleted(record[j], run[j]) \/ EndedFailed(record[j])
               /\ record[j].status = "completed" =>
                    /\ \A i \in DOMAIN run[j].tasks : run[j].tasks[i].st = "done"
                    /\ Len(run[j].tasks) = Len(aggregatedVotes(j))
                    /\ ~UsedWhenRefetched(j)
               /\ response[j] = "200"
          /\ activeVoteJobs = Cardinality(Running)
          /\ run[j].pc \in RunningPcs \ {"wTerminal"} =>
               record[j].status = "processing")
  /\ [][\A j \in JobIds :
          /\ ApplyEnds(j) =>
               /\ ApplyRaises(j) <=> record'[j].status = "failed"
               /\ ~ApplyRaises(j) <=> record'[j].status = "completed"
          /\ ApplyOver(j) =>
               /\ record'[j] = record[j]
               /\ response'[j] = response[j]
               /\ run'[j].pc \in {"wTerminal", "done"}]_vars

\* performVoteUpdate threw on a rate-limited call; the job is over as
\* failed, its slot free again.
C19_Witness ==
  /\ run[1].pc = "done"
  /\ EndedFailed(record[1])
  /\ record[1].error = "Rate limited."
  /\ activeVoteJobs = 0
  /\ response[1] = "200"

\* performVoteUpdate returned after a key write failed; the job is over as
\* completed.
C19_WitnessCompleted ==
  /\ run[1].pc = "done"
  /\ EndedCompleted(record[1], run[1])
  /\ record[1].updateResult.resultsError # <<>>

(***************************************************************************)
(* C20.  When the write of the job record fails at the processing          *)
(* transition or at the terminal transition, the write is not made again,  *)
(* performVoteUpdate still runs, the job's slot is still released and the  *)
(* next pending job still started; only the record file keeps an older     *)
(* status.                                                                 *)
(***************************************************************************)
WriteFails == storageFaults' > storageFaults

\* The failed write was job j's processing write: the job goes on into
\* performVoteUpdate with its record in memory as it was set.
ProcessingWriteFailed(j) ==
  /\ run[j].pc = "wProcessing"
  /\ run'[j].pc \in RunningPcs \ {"wProcessing"}
  /\ record'[j].status \in {"processing", "completed", "failed"}
  /\ UNCHANGED <<voteJobQueue, activeVoteJobs>>

\* The failed write was job j's terminal write: the job is over, its slot
\* is free and the oldest pending job has it.
TerminalWriteFailed(j) ==
  /\ run[j].pc = "wTerminal"
  /\ run'[j].pc = "done"
  /\ record'[j] = record[j]
  /\ activeVoteJobs' = Cardinality({x \in JobIds : run'[x].pc \in RunningPcs})
  /\ voteJobQueue # <<>> =>
       /\ run'[Head(voteJobQueue)].pc = "wProcessing"
       /\ voteJobQueue' = Tail(voteJobQueue)

\* The failed write was job j's first one, in the request handler.
FirstWriteFailed(j) == run[j].pc = "persist" /\ run'[j].pc # "persist"

C20_RecordWriteFailureDoesNotBlock ==
  /\ [][WriteFails =>
          /\ durable' = durable
          /\ UNCHANGED <<keyPages, votePages, written>>
          /\ \E j \in JobIds :
               \/ ProcessingWriteFailed(j)
               \/ TerminalWriteFailed(j)
               \/ FirstWriteFailed(j)]_vars
  /\ [][\A j \in JobIds :
          /\ (run'[j].pc = "wProcessing" /\ run[j].pc # "wProcessing") =>
               run[j].pc \in {"persist", "queued"}
          /\ (run'[j].pc = "wTerminal" /\ run[j].pc # "wTerminal") =>
               run[j].pc \in RunningPcs]_vars
  /\ [](\A j \in JobIds :
          /\ run[j].pc = "done" => Terminal(j)
          /\ (durable[j] # record[j] /\ run[j].pc \in {"queued", "done"}) =>
               storageFaults > 0
          /\ durable[j].status \in
               {"none", "queued", "processing", record[j].status})

\* The terminal write of the first job failed while another job was
\* pending: the file still says processing, the job is over in memory and
\* the pending job has been started.
C20_Witness ==
  /\ storageFaults = 1
  /\ VOTE_JOB_CONCURRENCY = 1
  /\ run[1].pc = "done"
  /\ record[1].status = "completed"
  /\ durable[1].status = "processing"
  /\ run[2].pc \in RunningPcs

\* The processing write failed and performVoteUpdate is running.
C20_WitnessProcessing ==
  /\ storageFaults = 1
  /\ durable[1].status = "queued"
  /\ run[1].pc \in RunningPcs \ {"wProcessing"}

(***************************************************************************)
(* C16.  For every schema with a checkbox column whose name is in the      *)
(* exact-name list of the used flag, resolving the used flag returns that  *)
(* column, whatever other candidate columns, exact-name columns or         *)
(* configured override there are.                                          *)
(***************************************************************************)
ExactNames == Range(KEY_USED_EXACT_NAMES)

\* The checkbox columns of the schema that bear an exact name.
ExactCheckboxes(properties) ==
  {i \in DOMAIN properties :
     properties[i].type = "checkbox" /\ properties[i].name \in ExactNames}

ReturnsColumn(output, column) ==
  /\ output # [type |-> "throw"]
  /\ output.name = column.name
  /\ output.schema.type = column.type

\* The statement as made: violated when the override names another column
\* of the schema, or another column bears an exact name listed earlier.
C16_ExactCheckboxAlwaysWins ==
  Returned("resolveUsedProperty") =>
    \A i \in ExactCheckboxes(call.input.properties) :
      ReturnsColumn(call.output, call.input.properties[i])

\* The override is in force: it is set and names a column of the schema.
OverrideInForce(properties, override) ==
  override # NoValue /\ IndexOfName(properties, override) # 0

\* No column of the schema bears an exact name listed before `name`.
FirstListed(properties, name) ==
  \A n, m \in DOMAIN KEY_USED_EXACT_NAMES :
    (KEY_USED_EXACT_NAMES[m] = name /\ n < m) =>
      IndexOfName(properties, KEY_USED_EXACT_NAMES[n]) = 0

\* The statement that holds: the exact-name checkbox column is returned,
\* whatever fuzzy candidates the schema has, when no override is in force
\* and no column bears an exact name listed earlier; an override in force
\* is returned instead.
C16_ExactCheckboxWinsOverFuzzy ==
  Returned("resolveUsedProperty") =>
    LET properties == call.input.properties
        override == call.input.override
    IN /\ \A i \in ExactCheckboxes(properties) :
            (/\ ~OverrideInForce(properties, override)
             /\ FirstListed(properties, properties[i].name)) =>
              ReturnsColumn(call.output, properties[i])
       /\ OverrideInForce(properties, override) =>
            ReturnsColumn(call.output,
                          properties[IndexOfName(properties, override)])

\* A fuzzy candidate comes first in the schema, an exact name listed later
\* than the checkbox column's is there too, the override names no column:
\* the checkbox column is returned.
C16_Witness ==
  /\ Returned("resolveUsedProperty")
  /\ call.input.override = "Absent"
  /\ call.input.properties =
       <<[name |-> "Used", type |-> "checkbox"],
         [name |-> KEY_USED_EXACT_NAMES[4], type |-> "select"],
         [name |-> KEY_USED_EXACT_NAMES[1], type |-> "checkbox"]>>
  /\ call.output.name = KEY_USED_EXACT_NAMES[1]

\* The override names another column of the schema and is returned.
C16_WitnessOverride ==
  /\ Returned("resolveUsedProperty")
  /\ call.input.override = "Notes"
  /\ ExactCheckboxes(call.input.properties) # {}
  /\ call.output.name = "Notes"

(***************************************************************************)
(* C21.  Within one job every target of the aggregated votes is attempted  *)
(* (its read is issued), whatever the order in which the other targets     *)
(* settle and however they end: the worker pool never leaves its loop      *)
(* early.                                                                  *)
(***************************************************************************)
\* The pool of job j has been started and performVoteUpdate has left it.
PoolOver(j) == run[j].tasks # <<>> /\ run[j].pc # "pool"

\* The statement as made: violated when a task rejects while an item has
\* not been started.
C21_EveryTargetAttempted ==
  \A j \in JobIds : PoolOver(j) => Pending(j) = {}

\* The statement that holds: the loop is left with an item unstarted only
\* after a task rejected, and such an item is never started afterwards;
\* while no task has rejected the pool keeps `limit` tasks in flight as
\* long as items are left, so every target is attempted.
C21_TargetsAttemptedUnlessRejected ==
  /\ [](\A j \in JobIds :
          /\ (PoolOver(j) /\ Pending(j) # {}) => FailedTasks(j) # {}
          /\ (PoolOver(j) /\ FailedTasks(j) = {}) =>
               \A i \in DOMAIN run[j].tasks : run[j].tasks[i].st = "done"
          /\ (run[j].pc = "pool" /\ Pending(j) # {}) =>
               /\ FailedTasks(j) = {}
               /\ Cardinality(InFlight(j)) = VOTE_UPDATE_CONCURRENCY)
  /\ [][\A j \in JobIds :
          PoolOver(j) => \A i \in Pending(j) : run'[j].tasks[i].st = "pending"]_vars

\* Three targets through a pool of width 1, none rejected: all were
\* attempted and all are done.
C21_Witness ==
  /\ VOTE_UPDATE_CONCURRENCY = 1
  /\ PoolOver(1)
  /\ Len(run[1].tasks) = 3
  /\ \A i \in 1 .. 3 : run[1].tasks[i].st = "done"

\* The first task rejected; the third item was never started and the job
\* is over.
C21_WitnessAborted ==
  /\ run[1].pc = "done"
  /\ Len(run[1].tasks) = 3
  /\ run[1].tasks[1].st = "failed"
  /\ run[1].tasks[3].st = "pending"

(***************************************************************************)
(* C22.  With VOTE_JOB_CONCURRENCY = 1 the Notion calls of job execution   *)
(* are serialized per job: at every moment the calls in flight belong to   *)
(* one job, also when an earlier job has ended failed.                     *)
(***************************************************************************)
\* Job j has a Notion call in flight: the call its handler awaits, or a
\* read or write of one of its pool's tasks.
CallsInFlight(j) ==
  \/ run[j].pc \in {"rKeySchema", "rKeyPage", "rVoteSchema", "wResult", "wUsed"}
  \/ InFlight(j) # {}

C22_CallsOfOneJobAtATime ==
  VOTE_JOB_CONCURRENCY = 1 =>
    Cardinality({j \in JobIds : CallsInFlight(j)}) <= 1

(***************************************************************************)
(* C23.  For every column type the used flag can bind to (checkbox,        *)
(* select, status, rich_text, title, number) marking a key used has a      *)
(* serialization rule: it builds a write of an affirmative value of that   *)
(* type and does not throw.                                                *)
(***************************************************************************)
C23_EveryBindableTypeHasARule ==
  (/\ Returned("buildUsedUpdate")
   /\ call.input.schema.type \in UsedAllowedTypes) =>
    /\ ~Threw(call.output)
    /\ call.output.type = call.input.schema.type
    /\ isUsedPropertyValue(call.output)

(***************************************************************************)
(* C24.  The column returned for the result role is always of a type that  *)
(* holds long text (rich_text or title), whichever step - override, exact  *)
(* name, fuzzy match, last resort - produced it.                           *)
(***************************************************************************)
NoColumn == [type |-> "throw"]

C24_ResultColumnHoldsLongText ==
  (Returned("result") /\ call.output # NoColumn) =>
    call.output.schema.type \in {"rich_text", "title"}

(***************************************************************************)
(* C25.  A role is resolved by the first step that matches: the override   *)
(* when it names a column of the schema; else an exact name; else a fuzzy  *)
(* match among the role's allowed types; else the role's last resort (for  *)
(* the key role the first title column, then the first rich_text column);  *)
(* resolving fails only when no step matches.                              *)
(***************************************************************************)
RoleExactNames(role) ==
  CASE role = "key" -> Range(KEY_VALUE_EXACT_NAMES)
    [] role = "used" -> Range(KEY_USED_EXACT_NAMES)
    [] role = "result" -> Range(KEY_RESULT_EXACT_NAMES)

RoleMatchers(role) ==
  CASE role = "key" -> Range(KEY_VALUE_MATCHERS)
    [] role = "used" -> Range(KEY_USED_MATCHERS)
    [] role = "result" -> Range(KEY_RESULT_MATCHERS)

RoleAllowedTypes(role) ==
  CASE role = "key" -> KeyAllowedTypes
    [] role = "used" -> UsedAllowedTypes
    [] role = "result" -> ResultAllowedTypes

\* The columns each step of a role accepts, as sets of indices.
OverrideColumns(input) ==
  {i \in DOMAIN input.properties :
     input.override # NoValue /\ input.properties[i].name = input.override}

ExactColumns(role, input) ==
  {i \in DOMAIN input.properties :
     input.properties[i].name \in RoleExactNames(role)}

FuzzyColumns(role, input) ==
  {i \in DOMAIN input.properties :
     /\ input.properties[i].type \in RoleAllowedTypes(role)
     /\ MatchersIncluded(input.properties[i].name) \cap RoleMatchers(role) # {}}

OfType(input, type) ==
  {i \in DOMAIN input.properties : input.properties[i].type = type}

LastResortColumns(role, input) ==
  CASE role = "key" ->
         IF OfType(input, "title") # {} THEN OfType(input, "title")
         ELSE OfType(input, "rich_text")
    [] role = "used" -> {}
    [] role = "result" ->
         {i \in OfType(input, "rich_text") :
            input.properties[i].name \notin
              {input.keyPropertyName, input.usedPropertyName}}

\* The columns of the first step that accepts any.
FirstMatchingStep(role, input) ==
  IF OverrideColumns(input) # {} THEN OverrideColumns(input)
  ELSE IF ExactColumns(role, input) # {} THEN ExactColumns(role, input)
  ELSE IF FuzzyColumns(role, input) # {} THEN FuzzyColumns(role, input)
  ELSE LastResortColumns(role, input)

C25_FirstMatchingStepWins ==
  \A role \in Roles :
    Returned(role) =>
      LET accepted == FirstMatchingStep(role, call.input) IN
      IF accepted = {} THEN call.output = NoColumn
      ELSE /\ call.output # NoColumn
           /\ \E i \in accepted :
                /\ call.output.name = call.input.properties[i].name
                /\ call.output.schema.type = call.input.properties[i].type

\* The key role resolved by its last resort: no override, no exact name,
\* no fuzzy match of an allowed type, a rich_text column ahead of the title
\* column that is returned.
C25_Witness ==
  /\ Returned("key")
  /\ call.input.override = "Absent"
  /\ call.input.properties =
       <<[name |-> "Passcode", type |-> "checkbox"],
         [name |-> "Notes", type |-> "rich_text"],
         [name |-> "Memo", type |-> "title"]>>
  /\ call.output.name = "Memo"

\* No step matches: resolving fails.
C25_WitnessFails ==
  /\ Returned("used")
  /\ call.input.properties # <<>>
  /\ call.output = NoColumn

(***************************************************************************)
(* C26.  Matching follows the schema's own column order: when several      *)
(* columns satisfy the same step of a role (several exact-name columns or  *)
(* several fuzzy matches), the one that comes first in the schema is       *)
(* returned.                                                               *)
(***************************************************************************)
First(indices) == CHOOSE i \in indices : \A k \in indices : i <= k

\* The statement as made: violated by two exact-name columns of the used
\* role, of which the one named earlier in the name list is returned.
C26_FirstInSchemaOrderWins ==
  \A role \in Roles :
    (/\ Returned(role)
     /\ OverrideColumns(call.input) = {}
     /\ ExactColumns(role, call.input) \cup FuzzyColumns(role, call.input) # {}) =>
      LET step == FirstMatchingStep(role, call.input)
      IN /\ call.output # NoColumn
         /\ call.output.name = call.input.properties[First(step)].name

\* The place of a name in the role's list of exact names.
RoleExactList(role) ==
  CASE role = "key" -> KEY_VALUE_EXACT_NAMES
    [] role = "used" -> KEY_USED_EXACT_NAMES
    [] role = "result" -> KEY_RESULT_EXACT_NAMES

ListedAt(role, name) ==
  CHOOSE n \in DOMAIN RoleExactList(role) : RoleExactList(role)[n] = name

\* The statement that holds: among several fuzzy matches (and several
\* last-resort columns) the first column of the schema is returned; among
\* several exact-name columns the one whose name is listed first.
C26_TiesBrokenByListThenSchemaOrder ==
  \A role \in Roles :
    (Returned(role) /\ OverrideColumns(call.input) = {}) =>
      LET properties == call.input.properties
          exact == ExactColumns(role, call.input)
          step == FirstMatchingStep(role, call.input)
      IN IF exact # {}
           THEN /\ call.output # NoColumn
                /\ call.output.name \in {properties[i].name : i \in exact}
                /\ \A i \in exact :
                     ListedAt(role, call.output.name)
                       <= ListedAt(role, properties[i].name)
         ELSE step # {} =>
                /\ call.output # NoColumn
                /\ call.output.name = properties[First(step)].name

\* Two fuzzy matches of the used role: the one that comes first in the
\* schema is returned.
C26_Witness ==
  /\ Returned("used")
  /\ call.input.override = NoValue
  /\ call.input.properties =
       <<[name |-> "Notes", type |-> "title"],
         [name |-> "Status", type |-> "rich_text"],
         [name |-> "Used", type |-> "checkbox"]>>
  /\ call.output.name = "Status"

\* Two exact-name columns of the used role: the one listed first is
\* returned though it comes second in the schema.
C26_WitnessExact ==
  /\ Returned("used")
  /\ call.input.override = NoValue
  /\ call.input.properties =
       <<[name |-> KEY_USED_EXACT_NAMES[4], type |-> "checkbox"],
         [name |-> KEY_USED_EXACT_NAMES[1], type |-> "checkbox"]>>
  /\ call.output.name = KEY_USED_EXACT_NAMES[1]

(***************************************************************************)
(* C27.  The used predicate of a key record is the stored boolean for a    *)
(* checkbox column; for option and text columns it is true exactly when    *)
(* the trimmed value is one of yes, true, used and the three Chinese       *)
(* words, in any case; for a number column exactly when the number is      *)
(* greater than zero; it is false for a missing column and any other type. *)
(***************************************************************************)
\* The texts of RawTexts that are one of the six words once trimmed,
\* whatever their case.
AffirmativeTexts ==
  {"shi", "yes", "YES", " Yes ", "true", "TRUE", "yiyong", "yishiyong",
   "used", "Used", "used "}

C27_UsedPredicate ==
  Returned("isUsedPropertyValue") =>
    LET property == call.input IN
    call.output =
      CASE property.type = "checkbox" -> property.checkbox
        [] property.type \in {"select", "status", "rich_text", "title"} ->
             property.text \in AffirmativeTexts
        [] property.type = "number" ->
             \E n \in 1 .. MaxNumber : property = [type |-> "number", number |-> n]
        [] OTHER -> FALSE

\* An option named " Yes " is used; a text that only contains a word is not.
C27_Witness ==
  /\ Returned("isUsedPropertyValue")
  /\ call.input = [type |-> "select", text |-> " Yes "]
  /\ call.output = TRUE

C27_WitnessNot ==
  /\ Returned("isUsedPropertyValue")
  /\ call.input = [type |-> "rich_text", text |-> "not used"]
  /\ call.output = FALSE

(***************************************************************************)
(* C28.  The delay before retry k (k = 0, 1, 2) is the failure's           *)
(* retry-after duration when it carries a positive one, and otherwise      *)
(* min(1000 * 2^k, 4000) ms plus a jitter of at least 0 and less than 250  *)
(* ms: bases 1000, 2000 and 4000.                                          *)
(***************************************************************************)
BackoffBases == <<1000, 2000, 4000>>

JitterBound == 250

C28_DelayBeforeEachRetry ==
  /\ Len(retry.delays) <= Len(BackoffBases)
  /\ \A i \in DOMAIN retry.delays :
       LET error == retry.seen[i]
           delay == retry.delays[i]
       IN IF error.retryAfter > 0
            THEN delay = 1000 * error.retryAfter
            ELSE /\ BackoffBases[i] <= delay
                 /\ delay < BackoffBases[i] + JitterBound

\* Three retries: the first after the server's retry-after of 2 s, the
\* second and the third after backoff with the least and the most jitter.
C28_Witness ==
  /\ Len(retry.delays) = 3
  /\ retry.delays = <<2000, 2000, 4249>>
  /\ retry.seen[1].retryAfter = 2
  /\ retry.seen[2].retryAfter = 0

(***************************************************************************)
(* The schema caches over time: two submissions and a key check while the  *)
(* clock runs past the caches' expiry.                                     *)
(***************************************************************************)
CacheBodies == {[votes |-> <<Vote("b", 1)>>, results |-> NoValue]}

\* One job at a time, one update at a time.
CacheInit ==
  /\ Init
  /\ VOTE_JOB_CONCURRENCY = 1
  /\ VOTE_UPDATE_CONCURRENCY = 1

CacheNext ==
  \/ PipelineNext(1 .. MaxExecJobs, KeyIds, CacheBodies, MaxLiveApiFaults,
                  MaxStorageFaults)
  \/ \E d \in {Minute} : TimePasses(d)

SpecCache == CacheInit /\ [][CacheNext]_vars

(***************************************************************************)
(* Concurrent refreshes of the key schema cache: a key check and a         *)
(* submission's job, while the operator may edit the key database.         *)
(***************************************************************************)
RaceNext ==
  \/ PipelineNext({1}, KeyIds, CacheBodies, MaxLiveApiFaults, MaxStorageFaults)
  \/ \E body \in {"k1"} : VerifyKeyRequest(body)
  \/ \E out \in Outcomes(MaxLiveApiFaults) : VerifyKeySchemaRetrieved(out)
  \/ \E out \in QueryOutcomes(MaxLiveApiFaults) : VerifyKeyPagesQueried(out)
  \/ \E d \in {Minute} : TimePasses(d)
  \/ KeySchemaChanges

SpecRace == CacheInit /\ [][RaceNext]_vars

\* Job j's call of fetchKeyDatabaseProperties: the step out of the
\* processing write, where performVoteUpdate begins.
KeyLookup(j) == run[j].pc = "wProcessing" /\ run'[j].pc # "wProcessing"

\* Job j's call of resolveVotePropertyName: the step in which the key page
\* arrives and the key passes the check.
VoteLookup(j) ==
  run[j].pc = "rKeyPage" /\ run'[j].pc \in {"rVoteSchema", "pool"}

\* Job j's schema fetch at position pc settles in this step.
FetchSettles(j, pc) == run[j].pc = pc /\ run'[j].pc # pc

KeyCacheStep ==
  /\ \A j \in JobIds :
       /\ KeyLookup(j) =>
            IF now < cachedKeyDatabasePropertiesExpiresAt
              THEN /\ run'[j].pc = "rKeyPage"
                   /\ run'[j].keyProperties = cachedKeyDatabaseProperties
                   /\ apiFaults' = apiFaults
              ELSE run'[j].pc = "rKeySchema"
       /\ FetchSettles(j, "rKeySchema") =>
            IF apiFaults' = apiFaults
              THEN /\ cachedKeyDatabaseProperties' = keyDbSchema
                   /\ cachedKeyDatabasePropertiesExpiresAt' =
                        now + 5 * Minute
                   /\ run'[j].keyProperties = keyDbSchema
              ELSE UNCHANGED keyCacheVars
  /\ keyCacheVars' # keyCacheVars =>
       \E j \in JobIds : FetchSettles(j, "rKeySchema")
  /\ (now < cachedKeyDatabasePropertiesExpiresAt
        /\ ~(now' < cachedKeyDatabasePropertiesExpiresAt'))
       => (now' > now /\ UNCHANGED keyCacheVars)

VoteCacheStep ==
  /\ \A j \in JobIds :
       /\ VoteLookup(j) =>
            IF now < cachedVotePropertyNameExpiresAt
              THEN /\ run'[j].pc = "pool"
                   /\ run'[j].votePropertyName = cachedVotePropertyName
                   /\ apiFaults' = apiFaults
              ELSE run'[j].pc = "rVoteSchema"
       /\ FetchSettles(j, "rVoteSchema") =>
            IF apiFaults' = apiFaults
              THEN /\ cachedVotePropertyName' = voteDbSchema.votes
                   /\ cachedVotePropertyNameExpiresAt' = now + 5 * Minute
                   /\ run'[j].votePropertyName = voteDbSchema.votes
              ELSE UNCHANGED voteCacheVars
  /\ voteCacheVars' # voteCacheVars =>
       \E j \in JobIds : FetchSettles(j, "rVoteSchema")
  /\ (now < cachedVotePropertyNameExpiresAt
        /\ ~(now' < cachedVotePropertyNameExpiresAt'))
       => (now' > now /\ UNCHANGED voteCacheVars)

\* C29: once a fetch has filled a schema cache (the key database's schema,
\* the vote-count column's name), a lookup made less than five minutes
\* after the fill is answered from the cache with no call to Notion, a
\* lookup made at the expiry time or later fetches again, a fetch that
\* fails leaves the cached value and its expiry time as they were, and a
\* cache stops being served only because time has passed.
C29_CacheServedUntilExpiry == [][KeyCacheStep /\ VoteCacheStep]_vars

\* The second job found the key schema in the cache four minutes after the
\* first job's fetch filled it.
C29_Witness ==
  /\ run[2].pc = "rKeyPage"
  /\ apiFaults = 0
  /\ run[1].keyProperties = keyDbSchema
  /\ run[2].keyProperties = cachedKeyDatabaseProperties
  /\ cachedKeyDatabasePropertiesExpiresAt = 1 + 5 * Minute
  /\ now = 1 + 4 * Minute

\* The second job looked the key schema up at the very expiry time of the
\* first job's fill, and fetches again.
C29_WitnessRefetch ==
  /\ run[2].pc = "rKeySchema"
  /\ cachedKeyDatabaseProperties = keyDbSchema
  /\ now = cachedKeyDatabasePropertiesExpiresAt

\* The second job's fetch after expiry failed: the job failed without a
\* schema, and the cache still holds the first fill.
C29_WitnessFailedFetch ==
  /\ record[2].status = "failed"
  /\ run[2].keyProperties = NoSchema
  /\ cachedKeyDatabaseProperties = keyDbSchema
  /\ cachedKeyDatabasePropertiesExpiresAt = 1 + 5 * Minute
  /\ now > cachedKeyDatabasePropertiesExpiresAt

\* The second job took the vote column's name from the cache the first job
\* had filled.
C29_WitnessVoteName ==
  /\ run[2].pc = "pool"
  /\ run[2].votePropertyName = cachedVotePropertyName
  /\ record[1].status = "failed"
  /\ apiFaults = 1
  /\ cachedVotePropertyNameExpiresAt = 1 + 5 * Minute
  /\ now = 1 + 4 * Minute

\* The key check's fetch of the key schema is in flight although the cache
\* is being served: the check missed the cache, and a fetch that ran at the
\* same time has stored its response since.
VerifyFetchRaced ==
  call.pc = "rKeySchema" /\ now < cachedKeyDatabasePropertiesExpiresAt

\* The same for job j's fetch.
JobFetchRaced(j) ==
  run[j].pc = "rKeySchema" /\ now < cachedKeyDatabasePropertiesExpiresAt

\* The raced fetch's response arrives and is stored.
VerifyStoresLate ==
  VerifyFetchRaced /\ call'.pc # "rKeySchema" /\ apiFaults' = apiFaults

JobStoresLate(j) ==
  JobFetchRaced(j) /\ run'[j].pc # "rKeySchema" /\ apiFaults' = apiFaults

\* The schema of the response the late store carries.
LateSchemas ==
  (IF VerifyStoresLate THEN RetrievedProperties(call.served) ELSE {})
    \cup UNION {IF JobStoresLate(j)
                  THEN RetrievedProperties(run[j].served) ELSE {} :
                j \in JobIds}

StoresLate == VerifyStoresLate \/ \E j \in JobIds : JobStoresLate(j)

\* C30 as stated: when a key check and a job both miss the key schema cache
\* and both fetch, the response stored last carries the schema the cache
\* already holds from the other, and the expiry is the one of a single
\* refresh ending at that moment.
C30_ConcurrentRefreshesAgree ==
  [][StoresLate =>
       /\ cachedKeyDatabaseProperties' = cachedKeyDatabaseProperties
       /\ cachedKeyDatabasePropertiesExpiresAt' = now + 5 * Minute]_vars

\* C30, amended: when a key check and a job both miss the key schema cache
\* and both fetch, the response stored last replaces the cached schema and
\* sets the expiry five minutes after its arrival; it carries a schema the
\* key database had while that fetch was in flight, which is the schema
\* the cache already holds whenever the database's schema has not been
\* edited.
C30_LastResponseWins ==
  [][StoresLate =>
       /\ cachedKeyDatabaseProperties' \in LateSchemas
       /\ cachedKeyDatabasePropertiesExpiresAt' = now + 5 * Minute
       /\ keyDbSchema \in KeyDbSchemas =>
            cachedKeyDatabaseProperties' = cachedKeyDatabaseProperties]_vars

\* Both missed and both fetched; the job's response is stored, the key
\* check's is still to come, a minute later, with the schema unedited.
C30_Witness ==
  /\ VerifyFetchRaced
  /\ run[1].keyProperties = cachedKeyDatabaseProperties
  /\ keyDbSchema \in KeyDbSchemas
  /\ cachedKeyDatabasePropertiesExpiresAt = 1 + 5 * Minute
  /\ now = 1 + Minute

\* The other order: the key check's response is stored, the job's is still
\* to come.
C30_WitnessJobLate ==
  /\ JobFetchRaced(1)
  /\ call.pc = "qKeyPages"
  /\ call.properties = cachedKeyDatabaseProperties
  /\ keyDbSchema \in KeyDbSchemas

\* The schema was edited during the race: the job fetched the new schema,
\* the key check's older response was stored last, and the cache serves
\* the old schema.
C30_WitnessStale ==
  /\ keyDbSchema \notin KeyDbSchemas
  /\ run[1].keyProperties = keyDbSchema
  /\ call.pc = "qKeyPages"
  /\ call.properties \in KeyDbSchemas
  /\ cachedKeyDatabaseProperties = call.properties
  /\ now < cachedKeyDatabasePropertiesExpiresAt

(***************************************************************************)
(* One submission against databases in which a role may have no column.    *)
(***************************************************************************)
\* Key databases in which the key, the used-flag or the result role may
\* resolve to no column.
DriftKeyDbSchemas ==
  {[key |-> [type |-> k], used |-> [type |-> u], result |-> [type |-> r]] :
     k \in {"title", "none"}, u \in {"checkbox", "none"},
     r \in {"rich_text", "none"}}

\* Vote databases with and without a number column.
DriftVoteDbSchemas == {[votes |-> "Votes"], [votes |-> NoValue]}

DriftInit ==
  /\ ConfiguredInit(DriftKeyDbSchemas, DriftVoteDbSchemas, {0})
  /\ VOTE_JOB_CONCURRENCY = 1
  /\ VOTE_UPDATE_CONCURRENCY = 1
  /\ retry = RetryIdle
  /\ call = NoCall

DriftBodies == {[votes |-> <<Vote("b", 1)>>, results |-> "r1"]}

DriftNext ==
  PipelineNext({1}, KeyIds, DriftBodies, MaxLiveApiFaults, MaxStorageFaults)

SpecDrift == DriftInit /\ [][DriftNext]_vars

\* Roles without a column in the databases at Notion.
NoKeyColumn == keyDbSchema.key.type = "none"
NoUsedColumn == keyDbSchema.used.type = "none"
NoResultColumn == keyDbSchema.result.type = "none"
NoVoteColumn == voteDbSchema.votes = NoValue

\* Job j has ended with this error.
FailedWith(j, message) ==
  record[j].status = "failed" /\ record[j].error = message

\* C31 as stated: a job that ends while the used-flag, the result or the
\* vote-count role has no column ends failed.
C31_UnresolvedRoleFailsJob ==
  \A j \in JobIds :
    (Terminal(j)
       /\ (NoUsedColumn \/ NoResultColumn \/ NoVoteColumn))
      => record[j].status = "failed"

\* C31, amended: a used-flag role or a vote-count role without a column
\* fails the job at the resolution, with nothing written for it and no
\* second attempt; a result role (or key role) without a column is caught
\* after the votes are written: the job ends completed with resultsSaved
\* false and the resolution error in resultsError, and the key is still
\* marked used.
C31_ResolutionErrors ==
  \A j \in JobIds :
    Terminal(j) =>
      /\ (NoUsedColumn /\ apiFaults = 0) =>
           /\ FailedWith(j, "Unable to locate used flag property in key_db.")
           /\ written[j] = [votes |-> {}, key |-> {}]
      /\ (~NoUsedColumn /\ NoVoteColumn /\ apiFaults = 0
            /\ ~FailedWith(j, "Key already used.")) =>
           /\ FailedWith(j, "No number property found for votes.")
           /\ written[j] = [votes |-> {}, key |-> {}]
      /\ (~NoUsedColumn /\ ~NoVoteColumn /\ (NoResultColumn \/ NoKeyColumn)
            /\ apiFaults = 0 /\ ~FailedWith(j, "Key already used.")) =>
           /\ record[j].status = "completed"
           /\ record[j].updateResult.updated = 1
           /\ record[j].updateResult.resultsSaved = FALSE
           /\ record[j].updateResult.resultsError =
                IF NoKeyColumn
                  THEN <<"Unable to locate key property in key_db.">>
                  ELSE <<"Unable to locate vote result property in key_db.">>
           /\ isUsedPropertyValue(keyPages[job[j].keyId].used)

\* The result role has no column: the job ended completed, its vote
\* written, the payload not saved, the key marked used.
C31_Witness ==
  /\ NoResultColumn /\ ~NoUsedColumn /\ ~NoVoteColumn
  /\ record[1].status = "completed"
  /\ record[1].updateResult.resultsSaved = FALSE
  /\ votePages["b"] = 1
  /\ isUsedPropertyValue(keyPages["k1"].used)

\* The used-flag role has no column: the job ended failed.
C31_WitnessUsed ==
  /\ NoUsedColumn
  /\ FailedWith(1, "Unable to locate used flag property in key_db.")

\* The vote-count role has no column: the job ended failed.
C31_WitnessVotes ==
  /\ NoVoteColumn
  /\ FailedWith(1, "No number property found for votes.")

(***************************************************************************)
(* One submission for two targets whose vote-count property may hold no    *)
(* value, have another type or be missing.                                 *)
(***************************************************************************)
VoteProperties == {0, 1, EmptyNumber, NotNumber, MissingColumn}

NumericInit ==
  /\ ConfiguredInit(KeyDbSchemas, VoteDbSchemas, VoteProperties)
  /\ votePages["c"] = 0
  /\ retry = RetryIdle
  /\ call = NoCall

NumericBodies ==
  {[votes |-> <<Vote("a", 1), Vote("b", 2)>>, results |-> NoValue]}

NumericNext ==
  PipelineNext({1}, KeyIds, NumericBodies, MaxLiveApiFaults, MaxStorageFaults)

SpecNumeric == NumericInit /\ [][NumericNext]_vars

\* Job j's worker i has read a property that is missing or not a number.
ReadNonNumeric(j, i) ==
  /\ run[j].tasks[i].st = "failed"
  /\ ~isNumberProperty(votePages[run[j].tasks[i].id])

C32_WitnessMissing ==
  /\ votePages["b"] = MissingColumn
  /\ run[1].tasks # <<>>
  /\ ReadNonNumeric(1, 2)
  /\ durable[1].status = "failed"

\* Target b's number property holds no value: the worker is about to write
\* 0 + 2.
C32_WitnessEmpty ==
  /\ votePages["b"] = EmptyNumber
  /\ run[1].tasks # <<>>
  /\ run[1].tasks[2].st = "write"
  /\ run[1].tasks[2].next = 2

(***************************************************************************)
(* Two submissions with one key, one after the other, against key          *)
(* databases whose used column is of each type buildUsedUpdate writes,     *)
(* the select and status columns with several option lists.                *)
(***************************************************************************)
OptionLists ==
  {<<>>, <<"shi", "fou">>, <<"No", "Yes">>, <<"No", "Maybe">>,
   <<"Unused", "Used">>}

OptionKeyDbSchemas ==
  {[key |-> [type |-> "title"], used |-> u, result |-> [type |-> "rich_text"]] :
     u \in {[type |-> t] : t \in {"checkbox", "rich_text", "title"}}
          \cup {[type |-> t, options |-> o] :
                  t \in {"select", "status"}, o \in OptionLists}}

RoundTripInit ==
  /\ ConfiguredInit(OptionKeyDbSchemas, VoteDbSchemas, {0})
  /\ VOTE_JOB_CONCURRENCY = 1
  /\ VOTE_UPDATE_CONCURRENCY = 1
  /\ retry = RetryIdle
  /\ call = NoCall

RoundTripNext ==
  PipelineNext(1 .. MaxExecJobs, KeyIds, CacheBodies, MaxLiveApiFaults,
               MaxStorageFaults)

SpecRoundTrip == RoundTripInit /\ [][RoundTripNext]_vars

\* C33: once a job's mark-used write has succeeded, the used predicate is
\* true of the key record, whatever the type of the used column and
\* whatever options a select or status column lists.
C33_MarkedKeyReadsUsed ==
  \A j \in JobIds :
    "used" \in written[j].key =>
      isUsedPropertyValue(keyPages[job[j].keyId].used)

\* The sum of target t's deltas over the jobs 1 .. n.
RECURSIVE DeltaSum(_, _)
DeltaSum(n, t) ==
  IF n = 0 THEN 0 ELSE DeltaSum(n - 1, t) + CountOf(job[n].sanitizedVotes, t)

\* Every submission made so far has ended completed.
AllCompleted ==
  /\ \E j \in JobIds : record[j].status = "completed"
  /\ \A j \in JobIds : record[j].status \in {"none", "completed"}

\* C34: when every job has ended completed, each target's stored count is
\* its initial count, 0, plus the sum of its deltas over all jobs, for
\* every dispatcher bound and pool width and whether or not Notion calls
\* were retried.
C34_NoLostUpdate ==
  AllCompleted => \A t \in TargetIds : votePages[t] = DeltaSum(MaxJobs, t)

\* The same with one job at a time.
C34_NoLostUpdateOneAtATime ==
  (AllCompleted /\ VOTE_JOB_CONCURRENCY = 1) =>
    \A t \in TargetIds : votePages[t] = DeltaSum(MaxJobs, t)

\* C35: once a job's status is completed or failed, none of its workers
\* has a read or a write of a vote-count record in flight (and so none
\* is issued later).
C35_NoWorkerOutlivesJob ==
  \A j \in JobIds : Terminal(j) => InFlight(j) = {}

\* C36: between two handlers of the server - after each enqueue and after
\* each job's completion handler - a job is pending only if every slot is
\* taken: a non-empty queue implies that the occupancy equals the
\* dispatcher bound.
C36_WorkConserving ==
  voteJobQueue # <<>> => activeVoteJobs = VOTE_JOB_CONCURRENCY

\* A job has ended and released its slot, the drain has started the next
\* one, and a third is still pending behind it.
C36_Witness ==
  /\ voteJobQueue # <<>>
  /\ \E j \in JobIds : run[j].pc = "done"
  /\ activeVoteJobs = VOTE_JOB_CONCURRENCY

\* A submission was enqueued while both slots of a bound of two were
\* taken.
C36_WitnessEnqueue ==
  /\ VOTE_JOB_CONCURRENCY = 2
  /\ Len(voteJobQueue) = 1
  /\ Len(enqueuedLog) = 3
  /\ \A j \in JobIds : run[j].pc # "done"

(***************************************************************************)
(* Two submissions whose record writes may fail more than once.            *)
(***************************************************************************)
MaxRecordFaults == 2

RecordNext ==
  PipelineNext(1 .. MaxExecJobs, KeyIds, CacheBodies, MaxLiveApiFaults,
               MaxRecordFaults)

SpecRecord == CacheInit /\ [][RecordNext]_vars

\* The place of a status in a job's life.
StatusRank(status) ==
  CASE status = "none" -> 0
    [] status = "queued" -> 1
    [] status = "processing" -> 2
    [] status \in {"completed", "failed"} -> 3

\* C37: the status in a job's record on disk only moves forward - queued,
\* then processing, then completed or failed - whichever of the record
\* writes succeed and fail, and a record on disk that shows completed or
\* failed is never written again.
C37_DurableStatusNeverRegresses ==
  [][\A j \in JobIds :
       /\ StatusRank(durable'[j].status) >= StatusRank(durable[j].status)
       /\ durable'[j].status # durable[j].status =>
            StatusRank(durable'[j].status) > StatusRank(durable[j].status)
       /\ durable[j].status \in {"completed", "failed"} =>
            durable'[j] = durable[j]]_vars

\* The processing write of job 1 failed and its terminal write succeeded:
\* the record on disk went from queued to completed.
C37_Witness ==
  /\ durable[1].status = "completed"
  /\ storageFaults = 1
  /\ record[2].status = "none"

\* Both the processing write and the terminal write of job 1 failed: the
\* job has ended failed and the record on disk still says queued.
C37_WitnessStale ==
  /\ run[1].pc = "done"
  /\ record[1].status = "failed"
  /\ durable[1].status = "queued"
  /\ storageFaults = 2

(***************************************************************************)
(* Submissions whose vote list is empty once filtered, next to one that    *)
(* keeps a vote.                                                           *)
(***************************************************************************)
EmptyBodies ==
  {[votes |-> <<Vote("", 1), Vote("a", 0)>>, results |-> NoValue],
   [votes |-> <<Vote("b", 1)>>, results |-> NoValue]}

EmptyNext ==
  PipelineNext(1 .. MaxExecJobs, KeyIds, EmptyBodies, MaxLiveApiFaults,
               MaxStorageFaults)

SpecEmpty == CacheInit /\ [][EmptyNext]_vars

\* Job j was accepted with a key and with no vote left after filtering.
EmptySubmission(j) ==
  /\ job[j] # NoJob
  /\ job[j].keyId # ""
  /\ job[j].sanitizedVotes = <<>>

\* C38: a submission with a key whose vote list is empty after filtering is
\* accepted and run.  Its job never looks up the vote-count column and never
\* reads or writes a target; it can fail only in the key check, before any
\* key write; once the key check has passed it issues the result write and
\* the mark-used write and ends completed with updated = 0 and no property,
\* with both writes on the key record when neither was refused.
C38_EmptySubmissionRuns ==
  \A j \in 1 .. MaxExecJobs :
    EmptySubmission(j) =>
      /\ run[j].pc \notin {"none", "rejected", "rVoteSchema", "pool"}
      /\ response[j] # "400"
      /\ run[j].votePropertyName = NoValue
      /\ run[j].tasks = <<>>
      /\ written[j].votes = {}
      /\ record[j].status = "failed" =>
            /\ written[j].key = {}
            /\ run[j].resultsError = <<>>
            /\ ~run[j].resultsSaved
      /\ record[j].status = "completed" =>
            /\ record[j].updateResult.updated = 0
            /\ record[j].updateResult.property = NoValue
            /\ record[j].updateResult.results = <<>>
            /\ ~isUsedPropertyValue(run[j].keyPage)
            /\ record[j].updateResult.resultsSaved = ("result" \in written[j].key)
            /\ Len(record[j].updateResult.resultsError) = 2 - Cardinality(written[j].key)

\* Job 1 had no vote left after filtering and has ended completed with
\* updated = 0, the result payload written and the key marked used, all
\* target counts as they were.
C38_Witness ==
  /\ EmptySubmission(1)
  /\ run[1].pc = "done"
  /\ durable[1].status = "completed"
  /\ record[1].updateResult.updated = 0
  /\ written[1] = [votes |-> {}, key |-> {"result", "used"}]
  /\ isUsedPropertyValue(keyPages[job[1].keyId].used)
  /\ keyPages[job[1].keyId].result # NoProperty

\* The same job when its result write was refused: it still marks the key
\* used and ends completed, with the refusal in resultsError.
C38_WitnessRefused ==
  /\ EmptySubmission(1)
  /\ record[1].status = "completed"
  /\ written[1].key = {"used"}
  /\ Len(record[1].updateResult.resultsError) = 1

(***************************************************************************)
(* The voting screen: the voter taps plus and minus on the items of the    *)
(* categories, in any order.                                               *)
(***************************************************************************)
SetVotes(fn, category, id, next) ==
  /\ voteState' = next
  /\ call' = [pc |-> "returned", fn |-> fn,
              input |-> [prev |-> voteState, category |-> category, id |-> id],
              output |-> next]
  /\ UNCHANGED <<pipelineVars, retry>>

IncrementVote(category, id) ==
  SetVotes("incrementVote", category, id, incrementVote(voteState, category, id))

DecrementVote(category, id) ==
  SetVotes("decrementVote", category, id, decrementVote(voteState, category, id))

BallotInit ==
  /\ CallInit
  /\ call = NoCall

BallotNext ==
  \/ \E category \in BallotCategories, id \in BallotItems :
       IncrementVote(category, id)
  \/ \E category \in BallotCategories, id \in BallotItems :
       DecrementVote(category, id)

SpecBallot == BallotInit /\ [][BallotNext]_vars

\* The last operation on the ballot was fn.
LastOperation(fn) == call.pc = "returned" /\ call.fn = fn

\* The total of a category and the count of an item before the last
\* operation.
TotalBefore == SumOfValues(GetOr(call.input.prev, call.input.category, EmptyObject))
CountBefore ==
  GetOr(GetOr(call.input.prev, call.input.category, EmptyObject), call.input.id, 0)

\* C39: after any sequence of increments and decrements, every stored
\* category has at least one item and a total of at most 2, and every stored
\* count is 1 or 2; an increment in a category whose total is at the limit
\* and a decrement of an item whose count is zero leave the ballot as it was.
C39_BallotWithinLimits ==
  /\ \A category \in DOMAIN voteState :
       /\ DOMAIN voteState[category] # {}
       /\ SumOfValues(voteState[category]) <= MAX_VOTES_PER_CATEGORY
       /\ \A id \in DOMAIN voteState[category] :
            voteState[category][id] \in {1, 2}
  /\ LastOperation("incrementVote") /\ TotalBefore >= MAX_VOTES_PER_CATEGORY =>
       voteState = call.input.prev
  /\ LastOperation("decrementVote") /\ CountBefore = 0 =>
       voteState = call.input.prev

\* Every category is full - two votes on one item in c1, one vote on each
\* of two items in c2 - and a further increment in c2 has left the ballot
\* as it was.
C39_Witness ==
  /\ LastOperation("incrementVote")
  /\ call.input.category = "c2"
  /\ call.input.id = "p3"
  /\ voteState = call.input.prev
  /\ DOMAIN voteState = BallotCategories
  /\ voteState["c1"] = Spread(EmptyObject, "p1", 2)
  /\ voteState["c2"] = Spread(Spread(EmptyObject, "p1", 1), "p2", 1)

\* A decrement of an item without votes, in a category that has votes on
\* another item, has left the ballot as it was.
C39_WitnessAtZero ==
  /\ LastOperation("decrementVote")
  /\ CountBefore = 0
  /\ TotalBefore = 2
  /\ voteState = call.input.prev

\* A decrement has taken the last vote of a category: the category is no
\* longer stored.
C39_WitnessEmptied ==
  /\ LastOperation("decrementVote")
  /\ CountBefore = 1
  /\ TotalBefore = 1
  /\ call.input.category \notin DOMAIN voteState
  /\ DOMAIN voteState # {}

====
